---- MODULE Spec2Model ----
(***************************************************************************)
(* Mind-Mapper: the App component (graphData, elements, selectedNode,      *)
(* connectedNodes), the GraphVisualization effects (layout on elements     *)
(* change, 3-hop highlight on selection change), the text parser and the   *)
(* JSON save/load path, modelled as one state machine.  Every action is    *)
(* one handling turn: the handler, the re-render and the effects it        *)
(* triggers.                                                               *)
(***************************************************************************)
EXTENDS Integers, Sequences, FiniteSets, TLC

VARIABLES
  graphData,      \* App state: the parsed / loaded graph value
  elements,       \* App state: the Cytoscape element list shown
  selectedNode,   \* App state: id of the selected node, or NULL
  connectedNodes, \* App state: neighbour list shown in the InfoBar
  nodeClasses,    \* engine: node id -> set of highlight classes
  edgeClasses,    \* engine: edge position -> set of highlight classes
  layouts,        \* engine: relaxations in flight, oldest first
  settled,        \* completions reported by relaxations of the current elements
  refinerCalls,   \* minimizeCrossingsByNodeAdjustment runs for the current elements
  disk,           \* the text of the last file written by Save
  alertMsg,       \* message of the alert raised by the last turn
  lastTurn,       \* which handler ran in the last turn
  planned,        \* history: what the layout effect of a load under SpecLayout computed
  positions,      \* engine: node id -> position, where a specification follows them
  closures,       \* history: what the stop callback of each relaxation in flight closes over
  animations      \* engine: the animate calls of the stop callback that ran last

vars == <<graphData, elements, selectedNode, connectedNodes, nodeClasses,
          edgeClasses, layouts, settled, refinerCalls, disk, alertMsg, lastTurn,
          planned, positions, closures, animations>>

----------------------------------------------------------------------------
(* Bounds                                                                  *)

MaxEdges == 4      \* edges of the graphs the highlight is checked on
MaxLines == 2      \* lines of a parsed text
MaxInflight == 1   \* superseded relaxations still in flight

----------------------------------------------------------------------------
(* Values                                                                  *)

NULL == "<null>"
NONE == "<none>"

NodeIds == {"a", "b", "c", "d", "e"}

Classes == {"selected", "connected-1", "connected-2", "connected-3"}

Range(s) == {s[i] : i \in 1..Len(s)}

\* decimal digits as characters
DigitTok == <<"0", "1", "2", "3", "4", "5", "6", "7", "8", "9">>

IsDigit(tok) == \E d \in 1..10 : DigitTok[d] = tok
DigitVal(tok) == (CHOOSE d \in 1..10 : DigitTok[d] = tok) - 1

\* F applied to the value of v, with v evaluated once
Bind(v, F(_)) == CHOOSE y \in {F(x) : x \in {v}} : TRUE

\* A JSON value as far as the app looks into it: null, or an object whose
\* "nodes" / "edges" arrays may be missing.
GraphValue(ns, es) ==
  [isNull |-> FALSE, hasNodes |-> TRUE, hasEdges |-> TRUE, nodes |-> ns, edges |-> es]

NullValue ==
  [isNull |-> TRUE, hasNodes |-> FALSE, hasEdges |-> FALSE, nodes |-> <<>>, edges |-> <<>>]

EmptyObjectValue ==
  [isNull |-> FALSE, hasNodes |-> FALSE, hasEdges |-> FALSE, nodes |-> <<>>, edges |-> <<>>]

NodesOnlyValue(ns) ==
  [isNull |-> FALSE, hasNodes |-> TRUE, hasEdges |-> FALSE, nodes |-> ns, edges |-> <<>>]

WellFormed(g) == ~g.isNull /\ g.hasNodes /\ g.hasEdges

----------------------------------------------------------------------------
(* Parser.parseText                                                        *)

\* A line of the text is a sequence of tokens: the characters { } ( ),
\* decimal digits, blanks, and words (runs of any other characters).  A
\* text is the sequence of its lines, as text.trim().split('\n') gives.
Rel(a, digits, b) ==
  <<"{", a, "}", "(">> \o [i \in 1..Len(digits) |-> DigitTok[digits[i] + 1]]
                       \o <<")", "{", b, "}">>

Garbage == <<"garbage", " ", "text">>

\* token k of the line, or the empty string past its end
TokenAt(line, k) == IF k \in 1..Len(line) THEN line[k] ELSE ""

\* [^{}]+ from token i on: the index of the last token of the run
RECURSIVE NameEnd(_, _)
NameEnd(line, i) ==
  IF i <= Len(line) /\ line[i] \notin {"{", "}"} THEN NameEnd(line, i + 1) ELSE i - 1

NoMatch == [ok |-> FALSE, text |-> <<>>, next |-> 0]

\* \{([^{}]+)\} at token i
MatchBraced(line, i) ==
  IF TokenAt(line, i) = "{"
     /\ NameEnd(line, i + 1) > i
     /\ TokenAt(line, NameEnd(line, i + 1) + 1) = "}"
  THEN [ok |-> TRUE, text |-> SubSeq(line, i + 1, NameEnd(line, i + 1)),
        next |-> NameEnd(line, i + 1) + 2]
  ELSE NoMatch

\* \(([0-9]{1,2})\) at token i
MatchWeight(line, i) ==
  IF TokenAt(line, i) = "(" /\ IsDigit(TokenAt(line, i + 1))
  THEN IF TokenAt(line, i + 2) = ")"
       THEN [ok |-> TRUE, text |-> SubSeq(line, i + 1, i + 1), next |-> i + 3]
       ELSE IF IsDigit(TokenAt(line, i + 2)) /\ TokenAt(line, i + 3) = ")"
       THEN [ok |-> TRUE, text |-> SubSeq(line, i + 1, i + 2), next |-> i + 4]
       ELSE NoMatch
  ELSE NoMatch

\* the whole pattern at token i: match[1], match[2], match[3]
MatchAt(line, i) ==
  Bind(MatchBraced(line, i), LAMBDA a :
  IF ~a.ok THEN [ok |-> FALSE, m1 |-> <<>>, m2 |-> <<>>, m3 |-> <<>>]
  ELSE Bind(MatchWeight(line, a.next), LAMBDA w :
       IF ~w.ok THEN [ok |-> FALSE, m1 |-> <<>>, m2 |-> <<>>, m3 |-> <<>>]
       ELSE Bind(MatchBraced(line, w.next), LAMBDA b :
            IF ~b.ok THEN [ok |-> FALSE, m1 |-> <<>>, m2 |-> <<>>, m3 |-> <<>>]
            ELSE [ok |-> TRUE, m1 |-> a.text, m2 |-> w.text, m3 |-> b.text])))

\* line.match(regex): the pattern is not anchored, the leftmost match wins
FirstMatch(line) ==
  LET hits == {i \in 1..Len(line) : MatchAt(line, i).ok} IN
  IF hits = {} THEN [ok |-> FALSE, m1 |-> <<>>, m2 |-> <<>>, m3 |-> <<>>]
  ELSE MatchAt(line, CHOOSE i \in hits : \A j \in hits : i <= j)

\* /\{([^{}]+)\}\(([0-9]{1,2})\)\{([^{}]+)\}/
Matches(line) == FirstMatch(line).ok

\* String.prototype.trim on a run of tokens, then the tokens as one string
RECURSIVE trimStart(_)
trimStart(toks) ==
  IF toks # <<>> /\ Head(toks) = " " THEN trimStart(Tail(toks)) ELSE toks

RECURSIVE trimEnd(_)
trimEnd(toks) ==
  IF toks # <<>> /\ toks[Len(toks)] = " "
  THEN trimEnd(SubSeq(toks, 1, Len(toks) - 1)) ELSE toks

RECURSIVE Join(_)
Join(toks) == IF toks = <<>> THEN "" ELSE Head(toks) \o Join(Tail(toks))

trim(toks) == Join(trimEnd(trimStart(toks)))

RECURSIVE parseInt(_)
parseInt(digits) ==
  IF digits = <<>> THEN 0
  ELSE 10 * parseInt(SubSeq(digits, 1, Len(digits) - 1)) + DigitVal(digits[Len(digits)])

\* Set.add on the insertion-ordered node set
SetAdd(s, x) == IF x \in Range(s) THEN s ELSE Append(s, x)

RECURSIVE ParseLines(_, _, _)
ParseLines(lines, nodes, edges) ==
  IF lines = <<>>
  THEN GraphValue([i \in 1..Len(nodes) |-> [id |-> nodes[i]]], edges)
  ELSE Bind(FirstMatch(Head(lines)), LAMBDA match :
       IF trim(Head(lines)) # "" /\ match.ok
       THEN ParseLines(Tail(lines),
                       SetAdd(SetAdd(nodes, trim(match.m1)), trim(match.m3)),
                       Append(edges, [from |-> trim(match.m1), to |-> trim(match.m3),
                                      weight |-> parseInt(match.m2)]))
       ELSE ParseLines(Tail(lines), nodes, edges))

parseText(text) == ParseLines(text, <<>>, <<>>)

----------------------------------------------------------------------------
(* Parser.toCytoscapeFormat                                                *)

NoElements == [nodes |-> <<>>, edges |-> <<>>]

\* Node elements first, then edge elements with id edge-<from>-<to>-<index>.
\* Reading .nodes of null, or forEach of a missing array, throws.
toCytoscapeFormat(parsedData) ==
  IF parsedData.isNull \/ ~parsedData.hasNodes \/ ~parsedData.hasEdges
  THEN [elements |-> NoElements, threw |-> TRUE]
  ELSE [elements |->
          [nodes |-> [i \in 1..Len(parsedData.nodes) |-> [id |-> parsedData.nodes[i].id]],
           edges |-> [i \in 1..Len(parsedData.edges) |->
                        [id |-> <<parsedData.edges[i].from, parsedData.edges[i].to, i - 1>>,
                         weight |-> parsedData.edges[i].weight,
                         source |-> parsedData.edges[i].from,
                         target |-> parsedData.edges[i].to]]],
        threw |-> FALSE]

----------------------------------------------------------------------------
(* GraphModel.createGraph, addNode, addEdge                                *)

createGraph == GraphValue(<<>>, <<>>)

\* graph.nodes.some(node => node.id === nodeId)
HasNode(graph, nodeId) == \E i \in 1..Len(graph.nodes) : graph.nodes[i].id = nodeId

addNode_Always(graph, nodeId) ==
  [graph EXCEPT !.nodes = Append(graph.nodes, [id |-> nodeId])]

addNode(graph, nodeId) ==
  IF ~HasNode(graph, nodeId)
  THEN [graph EXCEPT !.nodes = Append(graph.nodes, [id |-> nodeId])]
  ELSE graph

addEdge_NoEndpoints(graph, fromNode, toNode, weight) ==
  [graph EXCEPT !.edges = Append(graph.edges,
                                 [from |-> fromNode, to |-> toNode, weight |-> weight])]

addEdge(graph, fromNode, toNode, weight) ==
  LET withNodes == addNode(addNode(graph, fromNode), toNode) IN
  [withNodes EXCEPT !.edges = Append(withNodes.edges,
                                     [from |-> fromNode, to |-> toNode, weight |-> weight])]

----------------------------------------------------------------------------
(* GraphModel.getConnectedNodes                                            *)

RECURSIVE ConnectedFrom(_, _, _)
ConnectedFrom(edges, nodeId, acc) ==
  IF edges = <<>> THEN acc
  ELSE LET edge == Head(edges)
           acc1 == IF edge.from = nodeId THEN SetAdd(acc, edge.to) ELSE acc
           acc2 == IF edge.to = nodeId THEN SetAdd(acc1, edge.from) ELSE acc1
       IN ConnectedFrom(Tail(edges), nodeId, acc2)

\* graph.edges.forEach throws when graph is null or has no edges array
getConnectedNodesThrows(graph) == graph.isNull \/ ~graph.hasEdges

getConnectedNodes(graph, nodeId) == ConnectedFrom(graph.edges, nodeId, <<>>)

----------------------------------------------------------------------------
(* The engine's element collection                                         *)

CyNodes(els) == {els.nodes[i].id : i \in 1..Len(els.nodes)}
CyEdges(els) == 1..Len(els.edges)

\* node.connectedEdges()
connectedEdges(els, n) ==
  {i \in CyEdges(els) : els.edges[i].source = n \/ els.edges[i].target = n}

\* edge.connectedNodes()
edgeConnectedNodes(els, i) == {els.edges[i].source, els.edges[i].target}

\* The element list is patched into the engine: an element whose id stays
\* keeps its classes, a new element has none.
PatchNodeClasses(oldNc, newEls) ==
  [n \in CyNodes(newEls) |-> IF n \in DOMAIN oldNc THEN oldNc[n] ELSE {}]

PatchEdgeClasses(oldEls, oldEc, newEls) ==
  [i \in CyEdges(newEls) |->
     IF i \in CyEdges(oldEls) /\ oldEls.edges[i].id = newEls.edges[i].id
     THEN oldEc[i] ELSE {}]

\* cy.elements().removeClass('selected connected-1 connected-2 connected-3')
removeClass_Kept(cls) == cls

removeClass(cls) == [x \in DOMAIN cls |-> cls[x] \ Classes]

addClass(cls, xs, c) == [x \in DOMAIN cls |-> IF x \in xs THEN cls[x] \cup {c} ELSE cls[x]]

hasClass(cls, x, c) == c \in cls[x]

----------------------------------------------------------------------------
(* GraphVisualization: highlight effect, useEffect(..., [selectedNode])    *)

\* "Reset classes first": cy.elements().removeClass(...)
ResetClasses_Skipped(cls) == cls

ResetClasses(cls) == removeClass(cls)

\* filter(n => !processedNodes.has(n.id()))
Unprocessed_Always(processed, n) == TRUE

Unprocessed(processed, n) == n \notin processed

\* filter(edge => !edge.hasClass('connected-1') && !edge.hasClass('selected'))
SecondDegreeEdgeFilter_None(ec, i) == TRUE

SecondDegreeEdgeFilter(ec, i) ==
  ~hasClass(ec, i, "connected-1") /\ ~hasClass(ec, i, "selected")

\* filter(edge => !edge.hasClass('connected-1') && !edge.hasClass('connected-2')
\*                && !edge.hasClass('selected'))
ThirdDegreeEdgeFilter_NoSecond(ec, i) ==
  ~hasClass(ec, i, "connected-1") /\ ~hasClass(ec, i, "selected")

ThirdDegreeEdgeFilter(ec, i) ==
  /\ ~hasClass(ec, i, "connected-1")
  /\ ~hasClass(ec, i, "connected-2")
  /\ ~hasClass(ec, i, "selected")

\* The selected node and its first-degree connections.  h is the state of
\* the run: the class maps, processedNodes and the node set just tagged.
FirstDegree(els, nc, ec, sel) ==
  LET selectedNodeEle == {sel} \cap CyNodes(els)
      firstDegreeEdges == UNION {connectedEdges(els, n) : n \in selectedNodeEle}
      firstDegreeNodes ==
        UNION {{n \in edgeConnectedNodes(els, i) : n # sel} : i \in firstDegreeEdges}
  IN [ec |-> addClass(ec, firstDegreeEdges, "connected-1"),
      nc |-> addClass(addClass(nc, selectedNodeEle, "selected"),
                      firstDegreeNodes, "connected-1"),
      processedNodes |-> {sel} \cup firstDegreeNodes,
      degreeNodes |-> firstDegreeNodes]

SecondDegree(els, h) ==
  LET edges == UNION {{i \in connectedEdges(els, n) : SecondDegreeEdgeFilter(h.ec, i)}
                        : n \in h.degreeNodes}
      secondDegreeNodes ==
        UNION {{n \in edgeConnectedNodes(els, i) : Unprocessed(h.processedNodes, n)}
                 : i \in edges}
  IN [ec |-> addClass(h.ec, edges, "connected-2"),
      nc |-> addClass(h.nc, secondDegreeNodes, "connected-2"),
      processedNodes |-> h.processedNodes \cup secondDegreeNodes,
      degreeNodes |-> secondDegreeNodes]

ThirdDegree(els, h) ==
  LET edges == UNION {{i \in connectedEdges(els, n) : ThirdDegreeEdgeFilter(h.ec, i)}
                        : n \in h.degreeNodes}
      thirdDegreeNodes ==
        UNION {{n \in edgeConnectedNodes(els, i) : Unprocessed(h.processedNodes, n)}
                 : i \in edges}
  IN [ec |-> addClass(h.ec, edges, "connected-3"),
      nc |-> addClass(h.nc, thirdDegreeNodes, "connected-3"),
      processedNodes |-> h.processedNodes \cup thirdDegreeNodes,
      degreeNodes |-> thirdDegreeNodes]

\* The whole effect body; it runs only when selectedNode is truthy.
HighlightEffect(els, nc, ec, sel) ==
  IF sel = NULL
  THEN [ec |-> ec, nc |-> nc]
  ELSE Bind(FirstDegree(els, ResetClasses(nc), ResetClasses(ec), sel), LAMBDA h1 :
       Bind(SecondDegree(els, h1), LAMBDA h2 :
       Bind(ThirdDegree(els, h2), LAMBDA h3 : [ec |-> h3.ec, nc |-> h3.nc])))

----------------------------------------------------------------------------
(* fileUtils: JSON.stringify on save, JSON.parse on load.  A file is its   *)
(* text as a sequence of tokens; the indentation JSON.stringify(.., 2)     *)
(* adds is white space that JSON.parse skips, and is left out.             *)

Q == "\""

Punctuation == {"{", "}", "[", "]", ",", ":", Q}

\* decimal text of a non-negative integer
RECURSIVE NumDigits(_)
NumDigits(w) ==
  IF w < 10 THEN <<DigitTok[w + 1]>>
  ELSE NumDigits(w \div 10) \o <<DigitTok[(w % 10) + 1]>>

\* two digits always, as the text syntax writes a weight
NumText_Padded(w) == IF w < 10 THEN <<"0", DigitTok[w + 1]>> ELSE NumDigits(w)

NumText(w) == NumDigits(w)

StrText(str) == <<Q, str, Q>>

KeyText(k) == <<Q, k, Q, ":">>

NodeText(node) == <<"{">> \o KeyText("id") \o StrText(node.id) \o <<"}">>

EdgeText(edge) ==
  <<"{">> \o KeyText("from") \o StrText(edge.from) \o <<",">>
          \o KeyText("to") \o StrText(edge.to) \o <<",">>
          \o KeyText("weight") \o NumText(edge.weight) \o <<"}">>

RECURSIVE NodeItemsText(_)
NodeItemsText(ns) ==
  IF ns = <<>> THEN <<>>
  ELSE IF Len(ns) = 1 THEN NodeText(ns[1])
  ELSE NodeText(ns[1]) \o <<",">> \o NodeItemsText(Tail(ns))

RECURSIVE EdgeItemsText(_)
EdgeItemsText(es) ==
  IF es = <<>> THEN <<>>
  ELSE IF Len(es) = 1 THEN EdgeText(es[1])
  ELSE EdgeText(es[1]) \o <<",">> \o EdgeItemsText(Tail(es))

\* JSON.stringify(graphData, null, 2): a missing (undefined) member is omitted
JSONstringify(v) ==
  IF v.isNull THEN <<"null">>
  ELSE <<"{">>
       \o (IF v.hasNodes
           THEN KeyText("nodes") \o <<"[">> \o NodeItemsText(v.nodes) \o <<"]">>
           ELSE <<>>)
       \o (IF v.hasNodes /\ v.hasEdges THEN <<",">> ELSE <<>>)
       \o (IF v.hasEdges
           THEN KeyText("edges") \o <<"[">> \o EdgeItemsText(v.edges) \o <<"]">>
           ELSE <<>>)
       \o <<"}">>

\* saveToJsonFile: the blob handed to saveAs
saveToJsonFile(g) == JSONstringify(g)

Fail == [ok |-> FALSE]
Ok(v, rest) == [ok |-> TRUE, rest |-> rest, val |-> v]

Expect(t, tok) == Len(t) >= 1 /\ t[1] = tok
Drop(t, k) == SubSeq(t, k + 1, Len(t))

RECURSIVE DigitRun(_)
DigitRun(t) == IF Len(t) >= 1 /\ IsDigit(t[1]) THEN 1 + DigitRun(Tail(t)) ELSE 0

RECURSIVE DigitsValue(_)
DigitsValue(ds) ==
  IF ds = <<>> THEN 0
  ELSE 10 * DigitsValue(SubSeq(ds, 1, Len(ds) - 1)) + DigitVal(ds[Len(ds)])

\* a JSON number: digits, no leading zero unless it is "0" itself
PNumber(t) ==
  LET n == DigitRun(t) IN
  IF n = 0 \/ (n > 1 /\ t[1] = "0") THEN Fail
  ELSE Ok(DigitsValue(SubSeq(t, 1, n)), Drop(t, n))

PString(t) ==
  IF Len(t) >= 3 /\ t[1] = Q /\ t[2] \notin Punctuation /\ t[3] = Q
  THEN Ok(t[2], Drop(t, 3)) ELSE Fail

PKey(t, k) ==
  IF Len(t) >= 4 /\ t[1] = Q /\ t[2] = k /\ t[3] = Q /\ t[4] = ":"
  THEN Ok(k, Drop(t, 4)) ELSE Fail

PNode(t) ==
  IF ~Expect(t, "{") THEN Fail
  ELSE Bind(PKey(Drop(t, 1), "id"), LAMBDA k :
       IF ~k.ok THEN Fail
       ELSE Bind(PString(k.rest), LAMBDA id :
            IF id.ok /\ Expect(id.rest, "}")
            THEN Ok([id |-> id.val], Drop(id.rest, 1)) ELSE Fail))

PMember(t, k, sep) ==
  Bind(PKey(t, k), LAMBDA key :
  IF ~key.ok THEN Fail
  ELSE Bind(PString(key.rest), LAMBDA str :
       IF str.ok /\ Expect(str.rest, sep) THEN Ok(str.val, Drop(str.rest, 1)) ELSE Fail))

PEdge(t) ==
  IF ~Expect(t, "{") THEN Fail
  ELSE Bind(PMember(Drop(t, 1), "from", ","), LAMBDA from :
       IF ~from.ok THEN Fail
       ELSE Bind(PMember(from.rest, "to", ","), LAMBDA to :
            IF ~to.ok THEN Fail
            ELSE Bind(PKey(to.rest, "weight"), LAMBDA k :
                 IF ~k.ok THEN Fail
                 ELSE Bind(PNumber(k.rest), LAMBDA w :
                      IF w.ok /\ Expect(w.rest, "}")
                      THEN Ok([from |-> from.val, to |-> to.val, weight |-> w.val],
                              Drop(w.rest, 1))
                      ELSE Fail))))

RECURSIVE PNodeItems(_, _)
PNodeItems(t, acc) ==
  Bind(PNode(t), LAMBDA r :
  IF ~r.ok THEN Fail
  ELSE IF Expect(r.rest, ",") THEN PNodeItems(Drop(r.rest, 1), Append(acc, r.val))
  ELSE IF Expect(r.rest, "]") THEN Ok(Append(acc, r.val), Drop(r.rest, 1))
  ELSE Fail)

PNodeArray(t) ==
  IF ~Expect(t, "[") THEN Fail
  ELSE IF Expect(Drop(t, 1), "]") THEN Ok(<<>>, Drop(t, 2))
  ELSE PNodeItems(Drop(t, 1), <<>>)

RECURSIVE PEdgeItems(_, _)
PEdgeItems(t, acc) ==
  Bind(PEdge(t), LAMBDA r :
  IF ~r.ok THEN Fail
  ELSE IF Expect(r.rest, ",") THEN PEdgeItems(Drop(r.rest, 1), Append(acc, r.val))
  ELSE IF Expect(r.rest, "]") THEN Ok(Append(acc, r.val), Drop(r.rest, 1))
  ELSE Fail)

PEdgeArray(t) ==
  IF ~Expect(t, "[") THEN Fail
  ELSE IF Expect(Drop(t, 1), "]") THEN Ok(<<>>, Drop(t, 2))
  ELSE PEdgeItems(Drop(t, 1), <<>>)

\* JSON.parse on the files of this model: null, {}, {"nodes":[..]} and
\* {"nodes":[..],"edges":[..]}; any other text here is not JSON.
JSONparse(t) ==
  IF t = <<"null">> THEN Ok(NullValue, <<>>)
  ELSE IF ~Expect(t, "{") THEN Fail
  ELSE IF Drop(t, 1) = <<"}">> THEN Ok(EmptyObjectValue, <<>>)
  ELSE Bind(PKey(Drop(t, 1), "nodes"), LAMBDA kn :
       IF ~kn.ok THEN Fail
       ELSE Bind(PNodeArray(kn.rest), LAMBDA ns :
            IF ~ns.ok THEN Fail
            ELSE IF ns.rest = <<"}">> THEN Ok(NodesOnlyValue(ns.val), <<>>)
            ELSE IF ~Expect(ns.rest, ",") THEN Fail
            ELSE Bind(PKey(Drop(ns.rest, 1), "edges"), LAMBDA ke :
                 IF ~ke.ok THEN Fail
                 ELSE Bind(PEdgeArray(ke.rest), LAMBDA es :
                      IF es.ok /\ es.rest = <<"}">>
                      THEN Ok(GraphValue(ns.val, es.val), <<>>)
                      ELSE Fail))))

NoFile == <<>>
Unreadable == <<"<unreadable>">>

\* loadFromJsonFile: reader.onerror rejects, a JSON.parse failure rejects,
\* anything JSON.parse returns resolves.
loadFromJsonFile(file) ==
  IF file = Unreadable THEN [rejected |-> TRUE, message |-> "Error reading file"]
  ELSE Bind(JSONparse(file), LAMBDA r :
       IF r.ok THEN [graphData |-> r.val, rejected |-> FALSE]
       ELSE [rejected |-> TRUE, message |-> "Invalid JSON file"])

----------------------------------------------------------------------------
(* Numbers: the scores are quotients of integers, kept exact as <<n, d>>   *)
(* with d > 0 and no common factor.                                        *)

RECURSIVE GCD(_, _)
GCD(m, n) == IF n = 0 THEN m ELSE GCD(n, m % n)
Abs(n) == IF n < 0 THEN -n ELSE n
Rat(n, d) ==
  LET g == GCD(Abs(n), Abs(d))
      sg == IF d < 0 THEN -1 ELSE 1
  IN <<sg * (n \div g), sg * (d \div g)>>
Num(n) == <<n, 1>>
RAdd(x, y) == Rat(x[1] * y[2] + y[1] * x[2], x[2] * y[2])
RSub(x, y) == Rat(x[1] * y[2] - y[1] * x[2], x[2] * y[2])
RMul(x, y) == Rat(x[1] * y[1], x[2] * y[2])
RDiv(x, y) == Rat(x[1] * y[2], x[2] * y[1])
RLess(x, y) == x[1] * y[2] < y[1] * x[2]
RLeq(x, y) == x[1] * y[2] <= y[1] * x[2]
RMax(x, y) == IF RLess(x, y) THEN y ELSE x

----------------------------------------------------------------------------
(* layoutUtils: calculateNodeImportance, getNormalizedWeights.  A score    *)
(* map is kept as the sequence of its entries in insertion order, which is *)
(* the order of cy.nodes().                                                *)

\* connectedEdges.reduce((sum, edge) => sum + edge.data('weight'), 0)
RECURSIVE SumWeights(_, _)
SumWeights(els, es) ==
  IF es = {} THEN 0
  ELSE LET i == CHOOSE i \in es : TRUE
       IN els.edges[i].weight + SumWeights(els, es \ {i})

\* avgWeight || 1
OrOne_Identity(x) == x

OrOne(x) == IF x[1] = 0 THEN Num(1) ELSE x

BasicScore(els, n) ==
  Bind(Cardinality(connectedEdges(els, n)), LAMBDA degree :
  Bind(SumWeights(els, connectedEdges(els, n)), LAMBDA totalWeight :
  Bind(IF degree > 0 THEN Rat(totalWeight, degree) ELSE Num(0), LAMBDA avgWeight :
  [id |-> n, degree |-> degree, totalWeight |-> totalWeight, avgWeight |-> avgWeight,
   compositeScore |-> RMul(Num(degree), OrOne(avgWeight))])))

calculateNodeImportance(cy) ==
  [i \in 1..Len(cy.nodes) |-> BasicScore(cy, cy.nodes[i].id)]

Keys(scores) == {scores[i].id : i \in 1..Len(scores)}
Entry(scores, nodeId) == scores[CHOOSE i \in 1..Len(scores) : scores[i].id = nodeId]

\* Math.min / Math.max folded over the entries from Infinity / -Infinity
MinScore(scores) ==
  LET i == CHOOSE i \in 1..Len(scores) :
             \A j \in 1..Len(scores) : RLeq(scores[i].compositeScore, scores[j].compositeScore)
  IN scores[i].compositeScore

MaxScore(scores) ==
  LET i == CHOOSE i \in 1..Len(scores) :
             \A j \in 1..Len(scores) : RLeq(scores[j].compositeScore, scores[i].compositeScore)
  IN scores[i].compositeScore

EqualScoresValue == Rat(1, 2)

NormalizedValue_ByMax(score, minScore, maxScore) ==
  IF RLess(minScore, maxScore)
  THEN IF maxScore[1] = 0 THEN Num(0) ELSE RDiv(score, maxScore)
  ELSE EqualScoresValue

\* scoreRange > 0 ? (score.compositeScore - minScore) / scoreRange : 0.5
NormalizedValue(score, minScore, maxScore) ==
  IF RLess(Num(0), RSub(maxScore, minScore))
  THEN RDiv(RSub(score, minScore), RSub(maxScore, minScore))
  ELSE EqualScoresValue

getNormalizedWeights(scores) ==
  Bind(MinScore(scores), LAMBDA minScore :
  Bind(MaxScore(scores), LAMBDA maxScore :
  [nodeId \in Keys(scores) |->
     NormalizedValue(Entry(scores, nodeId).compositeScore, minScore, maxScore)]))

----------------------------------------------------------------------------
(* AdvancedLayout: calculateEnhancedImportance, determineNodeTiers,        *)
(* calculateCrossingPenalties, createOptimizedLayout                       *)

\* What the engine does during one run of the layout effect:
\*   kind        "engine" when a step of the enhanced path throws
\*   centrality  "ok", "missing" (no betweennessCentrality on the build) or
\*               "throws" (centrality.betweenness throws at node after + 1)
\*   values      the betweenness the engine reports, by node position
EngineRun(kind, centrality, after, values) ==
  [kind |-> kind, centrality |-> centrality, after |-> after, values |-> values]

\* the try block: the values read before anything threw
ReadBetweenness(cy, fault) ==
  IF fault.centrality = "ok" THEN [i \in 1..Len(cy.nodes) |-> fault.values[i]]
  ELSE IF fault.centrality = "throws" THEN [i \in 1..fault.after |-> fault.values[i]]
  ELSE <<>>

\* the catch block: betweenness[node.id()] = 0 for every node
CatchBetweenness_KeepRead(cy, read) ==
  [i \in 1..Len(cy.nodes) |-> IF i <= Len(read) THEN read[i] ELSE 0]

CatchBetweenness(cy, read) == [i \in 1..Len(cy.nodes) |-> 0]

Betweenness(cy, fault) ==
  IF fault.centrality = "ok" THEN ReadBetweenness(cy, fault)
  ELSE CatchBetweenness(cy, ReadBetweenness(cy, fault))

\* compositeScore += betweennessValue * 5
WithBetweenness(entry, betweennessValue) ==
  [id |-> entry.id,
   degree |-> entry.degree,
   totalWeight |-> entry.totalWeight,
   avgWeight |-> entry.avgWeight,
   compositeScore |-> RAdd(entry.compositeScore, RMul(Num(betweennessValue), Num(5))),
   betweenness |-> betweennessValue]

WithNormalized(entry, normalized) ==
  [id |-> entry.id,
   degree |-> entry.degree,
   totalWeight |-> entry.totalWeight,
   avgWeight |-> entry.avgWeight,
   compositeScore |-> entry.compositeScore,
   betweenness |-> entry.betweenness,
   normalized |-> normalized]

calculateEnhancedImportance(cy, fault) ==
  Bind(Betweenness(cy, fault), LAMBDA betweenness :
  Bind([i \in 1..Len(cy.nodes) |->
          WithBetweenness(BasicScore(cy, cy.nodes[i].id), betweenness[i])],
       LAMBDA importanceScores :
  Bind(getNormalizedWeights(importanceScores), LAMBDA normalizedScores :
  [i \in 1..Len(cy.nodes) |->
     WithNormalized(importanceScores[i], normalizedScores[importanceScores[i].id])])))

\* Array.prototype.sort with (a, b) => score(b) - score(a): stable, descending
RECURSIVE InsertDescending(_, _)
InsertDescending(sorted, entry) ==
  IF sorted = <<>> THEN <<entry>>
  ELSE IF RLess(Head(sorted).compositeScore, entry.compositeScore)
  THEN <<entry>> \o sorted
  ELSE <<Head(sorted)>> \o InsertDescending(Tail(sorted), entry)

RECURSIVE SortDescending(_, _)
SortDescending(entries, sorted) ==
  IF entries = <<>> THEN sorted
  ELSE SortDescending(Tail(entries), InsertDescending(sorted, Head(entries)))

\* A key that is an array index: a canonical decimal numeral.  The node ids
\* of the graphs checked are words or single digits.
IsArrayIndex(key) == IsDigit(key)

\* Object.keys of a score map whose entries were inserted in the order of
\* the sequence: the array-index keys in ascending numeric order, then the
\* other keys in insertion order
ObjectKeys(entries) ==
  LET indexed == SelectSeq(entries, LAMBDA e : IsArrayIndex(e.id))
      named == SelectSeq(entries, LAMBDA e : ~IsArrayIndex(e.id))
  IN [k \in 1..Len(indexed) |->
        CHOOSE e \in Range(indexed) :
          Cardinality({f \in Range(indexed) : DigitVal(f.id) < DigitVal(e.id)}) = k - 1]
     \o named

\* percentile = index / length compared with 0.1, 0.3 and 0.6
TierOf_Inclusive(index, length) ==
  IF 10 * index <= length THEN 0
  ELSE IF 10 * index <= 3 * length THEN 1
  ELSE IF 10 * index <= 6 * length THEN 2
  ELSE 3

TierOf(index, length) ==
  IF 10 * index < length THEN 0
  ELSE IF 10 * index < 3 * length THEN 1
  ELSE IF 10 * index < 6 * length THEN 2
  ELSE 3

determineNodeTiers(nodeImportance) ==
  Bind(SortDescending(ObjectKeys(nodeImportance), <<>>), LAMBDA sortedNodes :
  [nodeId \in Keys(nodeImportance) |->
     TierOf((CHOOSE i \in 1..Len(sortedNodes) : sortedNodes[i].id = nodeId) - 1,
            Len(sortedNodes))])

\* nodeConnections[n]: for every edge, the other end pushed on each end's list
RECURSIVE Connections(_, _)
Connections(edges, n) ==
  IF edges = <<>> THEN <<>>
  ELSE (IF Head(edges).source = n THEN <<Head(edges).target>> ELSE <<>>)
       \o (IF Head(edges).target = n THEN <<Head(edges).source>> ELSE <<>>)
       \o Connections(Tail(edges), n)

\* potentialCrossings - shared * 2 for the pair taken as (nodeA, nodeB)
PairPenalty(cy, nodeA, nodeB) ==
  Bind(Connections(cy.edges, nodeA), LAMBDA connectionsA :
  Bind(Connections(cy.edges, nodeB), LAMBDA connectionsB :
  LET shared == Cardinality({i \in 1..Len(connectionsA) :
                               connectionsA[i] \in Range(connectionsB)})
      potentialCrossings ==
        Cardinality({p \in (1..Len(connectionsA)) \X (1..Len(connectionsB)) :
                       /\ connectionsA[p[1]] # nodeB
                       /\ connectionsB[p[2]] # nodeA
                       /\ connectionsA[p[1]] # connectionsB[p[2]]})
  IN potentialCrossings - shared * 2))

NodeIndex(cy, n) == CHOOSE i \in 1..Len(cy.nodes) : cy.nodes[i].id = n

\* penalties[x][y]: both orders get the value computed for i < j
StoredPenalty_PerOrder(cy, x, y) == PairPenalty(cy, x, y)

StoredPenalty(cy, x, y) ==
  IF NodeIndex(cy, x) < NodeIndex(cy, y) THEN PairPenalty(cy, x, y)
  ELSE PairPenalty(cy, y, x)

calculateCrossingPenalties(cy) ==
  IF Len(cy.nodes) < 2 THEN <<>>
  ELSE [x \in CyNodes(cy) |-> [y \in CyNodes(cy) \ {x} |-> StoredPenalty(cy, x, y)]]

\* nodeImportance[id]?.compositeScore || 1
ImportanceOrOne(nodeImportance, nodeId) ==
  IF nodeId \in Keys(nodeImportance)
  THEN OrOne(Entry(nodeImportance, nodeId).compositeScore) ELSE Num(1)

\* nodeImportance[id]?.normalized || 0.5
NormalizedOrHalf(nodeImportance, nodeId) ==
  IF nodeId \in Keys(nodeImportance) /\ Entry(nodeImportance, nodeId).normalized[1] # 0
  THEN Entry(nodeImportance, nodeId).normalized ELSE Rat(1, 2)

\* Math.max(50, 200 - (weight / 20) * 70 - (Math.max(src, tgt) / 25) * 50)
idealEdgeLength_NoFloor(nodeImportance, edge) ==
  LET sourceImportance == ImportanceOrOne(nodeImportance, edge.source)
      targetImportance == ImportanceOrOne(nodeImportance, edge.target)
      weightFactor == RDiv(Num(edge.weight), Num(20))
      importanceFactor == RDiv(RMax(sourceImportance, targetImportance), Num(25))
  IN RSub(RSub(Num(200), RMul(weightFactor, Num(70))), RMul(importanceFactor, Num(50)))

idealEdgeLength(nodeImportance, edge) ==
  LET sourceImportance == ImportanceOrOne(nodeImportance, edge.source)
      targetImportance == ImportanceOrOne(nodeImportance, edge.target)
      weightFactor == RDiv(Num(edge.weight), Num(20))
      importanceFactor == RDiv(RMax(sourceImportance, targetImportance), Num(25))
  IN RMax(Num(50), RSub(RSub(Num(200), RMul(weightFactor, Num(70))),
                        RMul(importanceFactor, Num(50))))

\* base * factor, kept as the two factors
Times(base, factor) == [base |-> base, times |-> factor]

\* 4500000 * (1.5 - normalizedImportance * 0.8)
nodeRepulsion(nodeImportance, nodeId) ==
  Times(4500000,
        RSub(Rat(3, 2), RMul(NormalizedOrHalf(nodeImportance, nodeId), Rat(4, 5))))

\* createOptimizedLayout returns the options object literal {name: 'fcose',
\* ..., idealEdgeLength, nodeRepulsion, stop, ...options}: layout options,
\* with no run method.  The stop closure holds the penalties and the tiers.
OptionsHaveRun == FALSE

createOptimizedLayout(cy, nodeImportance) ==
  [idealEdgeLength |-> [i \in CyEdges(cy) |-> idealEdgeLength(nodeImportance, cy.edges[i])],
   nodeRepulsion |-> [n \in CyNodes(cy) |-> nodeRepulsion(nodeImportance, n)],
   name |-> "fcose",
   hasRun |-> OptionsHaveRun,
   crossingPenalties |-> calculateCrossingPenalties(cy),
   nodeTiers |-> determineNodeTiers(nodeImportance)]

----------------------------------------------------------------------------
(* AdvancedLayout: minimizeCrossingsByNodeAdjustment.  Here cy carries the *)
(* viewport, the position of every node and the animations asked of the    *)
(* engine.  Coordinates are integers; a target position is kept as the     *)
(* exact expression the code evaluates, its square roots and cosines       *)
(* unevaluated.                                                            *)

\* the collection with its viewport and node positions, nothing animated
Engine(els, view, at) ==
  [positions |-> at,
   animations |-> <<>>,
   nodes |-> els.nodes,
   edges |-> els.edges,
   width |-> view.width,
   height |-> view.height]

\* node.animate({position, duration, easing}): the animation is queued and
\* the engine moves the node on later frames; node.position() is unchanged
\* while the caller runs
animate_Jump(cy, nodeId, target, duration) ==
  [cy EXCEPT !.positions[nodeId] = [y |-> cy.height \div 2, x |-> cy.width \div 2],
             !.animations = Append(@, [node |-> nodeId,
                                       duration |-> duration,
                                       position |-> target])]

animate(cy, nodeId, target, duration) ==
  [cy EXCEPT !.animations = Append(@, [node |-> nodeId,
                                       duration |-> duration,
                                       position |-> target])]

\* Object.entries(nodeTiers): the tiers were inserted in rank order
TierEntries(nodeImportance) ==
  Bind(determineNodeTiers(nodeImportance), LAMBDA tiers :
  Bind(ObjectKeys(SortDescending(ObjectKeys(nodeImportance), <<>>)), LAMBDA keys :
  [k \in 1..Len(keys) |-> [id |-> keys[k].id, tier |-> tiers[keys[k].id]]]))

\* tierGroups[tier] || []
TierGroup(nodeTiers, tier) ==
  LET members == SelectSeq(nodeTiers, LAMBDA e : e.tier = tier)
  IN [k \in 1..Len(members) |-> members[k].id]

\* Object.entries(crossingPenalties[nodeId] || {}): the other nodes were
\* inserted in the order of cy.nodes()
PenaltyEntries(cy, crossingPenalties, nodeId) ==
  IF nodeId \notin DOMAIN crossingPenalties THEN <<>>
  ELSE Bind(ObjectKeys(SelectSeq(cy.nodes, LAMBDA n : n.id \in DOMAIN crossingPenalties[nodeId])),
            LAMBDA keys :
            [k \in 1..Len(keys) |->
               [id |-> keys[k].id, penalty |-> crossingPenalties[nodeId][keys[k].id]]])

\* (centerX + radius * cos(angle), centerY + radius * sin(angle)) with
\* angle = (2 * PI / tier0.length) * index, index counted from 0
RingRadius == 100

RingPosition(cy, index, length) ==
  [center |-> [y |-> cy.height \div 2, x |-> cy.width \div 2],
   radius |-> RingRadius,
   turn |-> Rat(index, length)]

RECURSIVE PlaceTier0(_, _, _)
PlaceTier0(cy, tier0, index) ==
  IF index >= Len(tier0) THEN cy
  ELSE PlaceTier0(animate(cy, tier0[index + 1], RingPosition(cy, index, Len(tier0)), 500),
                  tier0, index + 1)

\* One term of (adjustX, adjustY) per other node at a distance > 0: the
\* direction (dx, dy) / sqrt(dx * dx + dy * dy) times force = penalty / 20
RECURSIVE Adjustments(_, _, _)
Adjustments(cy, position, others) ==
  IF others = <<>> THEN <<>>
  ELSE LET otherPos == cy.positions[Head(others).id]
           dx == position.x - otherPos.x
           dy == position.y - otherPos.y
       IN (IF dx * dx + dy * dy > 0
           THEN <<[dx |-> dx, dy |-> dy, force |-> Rat(Head(others).penalty, 20)]>>
           ELSE <<>>)
          \o Adjustments(cy, position, Tail(others))

\* position + (adjustX, adjustY) * correctionFactor
CorrectedPosition(position, adjust) ==
  [from |-> position, adjust |-> adjust, correctionFactor |-> Rat(3, 10)]

RECURSIVE AdjustTier(_, _, _)
AdjustTier(cy, crossingPenalties, tierNodes) ==
  IF tierNodes = <<>> THEN cy
  ELSE LET nodeId == Head(tierNodes)
           position == cy.positions[nodeId]
       IN AdjustTier(animate(cy, nodeId,
                             CorrectedPosition(position,
                               Adjustments(cy, position,
                                 PenaltyEntries(cy, crossingPenalties, nodeId))),
                             300),
                     crossingPenalties, Tail(tierNodes))

\* nodeTiers is given as its entries
minimizeCrossingsByNodeAdjustment(cy, crossingPenalties, nodeTiers) ==
  AdjustTier(
    AdjustTier(
      AdjustTier(PlaceTier0(cy, TierGroup(nodeTiers, 0), 0),
                 crossingPenalties, TierGroup(nodeTiers, 1)),
      crossingPenalties, TierGroup(nodeTiers, 2)),
    crossingPenalties, TierGroup(nodeTiers, 3))

----------------------------------------------------------------------------
(* GraphVisualization: layout effect, useEffect(..., [elements])           *)

\* The engine runs the main specification meets: a build without the
\* centrality capability, with or without a step of the enhanced path
\* (scoring, planning) throwing
NoFault == EngineRun("none", "missing", 0, <<>>)
EngineFault == EngineRun("engine", "missing", 0, <<>>)

Faults == {NoFault, EngineFault}

NotComputed == [importanceScores |-> <<>>, computed |-> FALSE, layout |-> <<>>]

\* The try block: calculateEnhancedImportance(cy), createOptimizedLayout(cy,
\* importanceScores), layout.run().  Calling a missing method throws.
EnhancedAttempt(fault) ==
  IF fault.kind = "engine" THEN [outcome |-> "engineThrew", started |-> <<>>]
  ELSE IF OptionsHaveRun
       THEN [outcome |-> "ran", started |-> <<[strategy |-> "enhanced", cur |-> TRUE]>>]
       ELSE [outcome |-> "runThrew", started |-> <<>>]

\* The values the try block has computed when it reaches layout.run()
EnhancedValues(cy, fault) ==
  IF fault.kind = "engine" THEN NotComputed
  ELSE Bind(calculateEnhancedImportance(cy, fault), LAMBDA importanceScores :
       [importanceScores |-> importanceScores,
        computed |-> TRUE,
        layout |-> createOptimizedLayout(cy, importanceScores)])

\* The catch block: cy.layout({name: 'cose', ...}).run()
FallbackLayout_NotRun == <<>>

FallbackLayout == <<[strategy |-> "fallback", cur |-> TRUE]>>

\* The catch block: calculateNodeImportance(cy) and getNormalizedWeights, for
\* the nodeRepulsion and stop closures of the fallback options
FallbackValues(cy) ==
  Bind(calculateNodeImportance(cy), LAMBDA importanceScores :
  [importanceScores |-> importanceScores,
   computed |-> TRUE,
   layout |-> [normalizedWeights |-> getNormalizedWeights(importanceScores)]])

\* normalizedWeights[node.id()] || 0
WeightOrZero(normalizedWeights, nodeId) ==
  IF nodeId \in DOMAIN normalizedWeights THEN normalizedWeights[nodeId] ELSE Num(0)

\* position + (center - position) * moveRatio with moveRatio = 0.1 +
\* (importance - 0.8) * 0.25, position being where the engine has the node
TowardCenter(cy, importance) ==
  [center |-> [y |-> cy.height \div 2, x |-> cy.width \div 2],
   moveRatio |-> RAdd(Rat(1, 10), RMul(RSub(importance, Rat(4, 5)), Rat(1, 4)))]

\* The stop function of the fallback options, closed over normalizedWeights:
\* cy.nodes().forEach(node => { if (importance > 0.8) node.animate(...) })
RECURSIVE FallbackStop(_, _, _)
FallbackStop(cy, normalizedWeights, nodes) ==
  IF nodes = <<>> THEN cy
  ELSE LET importance == WeightOrZero(normalizedWeights, Head(nodes).id)
       IN FallbackStop(IF RLess(Rat(4, 5), importance)
                       THEN animate(cy, Head(nodes).id, TowardCenter(cy, importance), 500)
                       ELSE cy,
                       normalizedWeights, Tail(nodes))

\* the effect found no node and asked nothing of the engine
NoRun == EngineRun("idle", "missing", 0, <<>>)

NothingPlanned == [run |-> NoRun, enhanced |-> NotComputed, fallback |-> NotComputed]

\* The relaxations the effect starts on the collection cy
LayoutEffect(cy, fault) ==
  IF Len(cy.nodes) > 0
  THEN LET try == EnhancedAttempt(fault) IN
       IF try.outcome = "ran" THEN try.started ELSE try.started \o FallbackLayout
  ELSE <<>>

\* The values the try and catch blocks of that effect compute on the way,
\* and the engine run they met
LayoutValues(cy, fault) ==
  IF Len(cy.nodes) > 0
  THEN [run |-> fault,
        enhanced |-> EnhancedValues(cy, fault),
        fallback |-> IF EnhancedAttempt(fault).outcome = "ran"
                     THEN NotComputed ELSE FallbackValues(cy)]
  ELSE NothingPlanned

\* What the stop function of each relaxation LayoutEffect starts closes over
StopClosures(cy, fault) ==
  [k \in 1..Len(LayoutEffect(cy, fault)) |->
     [normalizedWeights |-> FallbackValues(cy).layout.normalizedWeights]]

Superseded(ls) == [i \in 1..Len(ls) |-> [ls[i] EXCEPT !.cur = FALSE]]

\* Everything a new element list does to the engine: the list is patched
\* in, the effect clears the classes and starts the layout.  The highlight
\* effect that follows sees selectedNode = null and does nothing.
ElementsChanged(newEls, fault) ==
  \E h \in {HighlightEffect(newEls,
                            removeClass(PatchNodeClasses(nodeClasses, newEls)),
                            removeClass(PatchEdgeClasses(elements, edgeClasses, newEls)),
                            NULL)} :
     /\ elements' = newEls
     /\ nodeClasses' = h.nc
     /\ edgeClasses' = h.ec
     /\ layouts' = Superseded(layouts) \o LayoutEffect(newEls, fault)
     /\ settled' = 0
     /\ refinerCalls' = 0

----------------------------------------------------------------------------
(* App handlers                                                            *)

\* The relations a text is made of
LineUniverse == {Rel("a", <<0, 8>>, "b"), Rel("b", <<6>>, "c")}

Texts == UNION {[1..n -> LineUniverse] : n \in 0..MaxLines}

\* Files the user can pick besides the one Save wrote
HandFiles ==
  { <<"{">>,          \* truncated: not JSON
    <<"{", "}">>,     \* JSON, but no graph
    Unreadable }

FileClass(file) ==
  IF file = Unreadable THEN "unreadable"
  ELSE Bind(JSONparse(file), LAMBDA r :
       IF ~r.ok THEN "invalidJson"
       ELSE IF WellFormed(r.val) THEN "ok" ELSE "schemaMismatch")

\* handleParse(text)
HandleParse(text, fault) ==
  \E parsedData \in {parseText(text)} :
  \E cyto \in {toCytoscapeFormat(parsedData)} :
  /\ Len(layouts) <= MaxInflight
  /\ graphData' = parsedData
  /\ ElementsChanged(cyto.elements, fault)
  /\ selectedNode' = NULL
  /\ connectedNodes' = <<>>
  /\ alertMsg' = NONE
  /\ lastTurn' = "parse"
  /\ UNCHANGED disk

TapNode_Relayout(nodeId) ==
  /\ nodeId \in CyNodes(elements)
  /\ selectedNode' = nodeId
  /\ connectedNodes' = IF getConnectedNodesThrows(graphData) THEN connectedNodes
                       ELSE getConnectedNodes(graphData, nodeId)
  /\ LET h == IF nodeId = selectedNode
              THEN [ec |-> edgeClasses, nc |-> nodeClasses]
              ELSE HighlightEffect(elements, nodeClasses, edgeClasses, nodeId)
     IN /\ nodeClasses' = h.nc
        /\ edgeClasses' = h.ec
  /\ alertMsg' = NONE
  /\ lastTurn' = IF selectedNode = NULL THEN "select"
                 ELSE IF selectedNode = nodeId THEN "sameNode" ELSE "reselect"
  /\ layouts' = Superseded(layouts) \o LayoutEffect(elements, NoFault)
  /\ UNCHANGED <<graphData, elements, settled, refinerCalls, disk, planned,
                 positions, closures, animations>>

\* handleNodeSelect(nodeId), from the engine's tap on a node
TapNode(nodeId) ==
  /\ nodeId \in CyNodes(elements)
  /\ selectedNode' = nodeId
  /\ connectedNodes' = IF getConnectedNodesThrows(graphData) THEN connectedNodes
                       ELSE getConnectedNodes(graphData, nodeId)
  /\ LET h == IF nodeId = selectedNode
              THEN [ec |-> edgeClasses, nc |-> nodeClasses]
              ELSE HighlightEffect(elements, nodeClasses, edgeClasses, nodeId)
     IN /\ nodeClasses' = h.nc
        /\ edgeClasses' = h.ec
  /\ alertMsg' = NONE
  /\ lastTurn' = IF selectedNode = NULL THEN "select"
                 ELSE IF selectedNode = nodeId THEN "sameNode" ELSE "reselect"
  /\ UNCHANGED <<graphData, elements, layouts, settled, refinerCalls, disk, planned,
                 positions, closures, animations>>

\* handleNodeSelect(null), from the engine's tap on the background
TapBackground ==
  /\ selectedNode' = NULL
  /\ connectedNodes' = <<>>
  /\ LET h == IF selectedNode = NULL
              THEN [ec |-> edgeClasses, nc |-> nodeClasses]
              ELSE HighlightEffect(elements, nodeClasses, edgeClasses, NULL)
     IN /\ nodeClasses' = h.nc
        /\ edgeClasses' = h.ec
  /\ alertMsg' = NONE
  /\ lastTurn' = "deselect"
  /\ UNCHANGED <<graphData, elements, layouts, settled, refinerCalls, disk, planned,
                 positions, closures, animations>>

\* handleSave
HandleSave ==
  /\ disk' = saveToJsonFile(graphData)
  /\ alertMsg' = NONE
  /\ lastTurn' = "save"
  /\ UNCHANGED <<graphData, elements, selectedNode, connectedNodes, nodeClasses,
                 edgeClasses, layouts, settled, refinerCalls, planned,
                 positions, closures, animations>>

\* handleLoad with the file the user picked
HandleLoad(file, fault) ==
  \E r \in {loadFromJsonFile(file)} :
  /\ Len(layouts) <= MaxInflight
  /\ IF r.rejected
     THEN /\ alertMsg' = "Error loading file: " \o r.message
          /\ lastTurn' = "loadFailed"
          /\ UNCHANGED <<graphData, elements, selectedNode, connectedNodes, nodeClasses,
                         edgeClasses, layouts, settled, refinerCalls>>
     ELSE \E loadedData \in {r.graphData} :
          \E cyto \in {toCytoscapeFormat(loadedData)} :
             /\ graphData' = loadedData
             /\ IF cyto.threw
                THEN /\ alertMsg' = "Error loading file: TypeError"
                     /\ lastTurn' = "loadFailed"
                     /\ UNCHANGED <<elements, selectedNode, connectedNodes, nodeClasses,
                                    edgeClasses, layouts, settled, refinerCalls>>
                ELSE /\ ElementsChanged(cyto.elements, fault)
                     /\ selectedNode' = NULL
                     /\ connectedNodes' = <<>>
                     /\ alertMsg' = NONE
                     /\ lastTurn' = "load"
  /\ UNCHANGED disk

\* The engine reports that relaxation i has settled and calls its stop
\* callback: the enhanced layout's calls minimizeCrossingsByNodeAdjustment.
Settle(i) ==
  /\ i \in 1..Len(layouts)
  /\ layouts' = SubSeq(layouts, 1, i - 1) \o SubSeq(layouts, i + 1, Len(layouts))
  /\ settled' = IF layouts[i].cur THEN settled + 1 ELSE settled
  /\ refinerCalls' = IF layouts[i].cur /\ layouts[i].strategy = "enhanced"
                     THEN refinerCalls + 1 ELSE refinerCalls
  /\ alertMsg' = NONE
  /\ lastTurn' = "settle"
  /\ UNCHANGED <<graphData, elements, selectedNode, connectedNodes, nodeClasses,
                 edgeClasses, disk, planned, positions>>

----------------------------------------------------------------------------
(* The application                                                         *)

\* useState initial values; the first render has no element and no layout
Init ==
  /\ graphData = GraphValue(<<>>, <<>>)
  /\ elements = NoElements
  /\ selectedNode = NULL
  /\ connectedNodes = <<>>
  /\ nodeClasses = <<>>
  /\ edgeClasses = <<>>
  /\ layouts = <<>>
  /\ settled = 0
  /\ refinerCalls = 0
  /\ disk = NoFile
  /\ alertMsg = NONE
  /\ lastTurn = "init"
  /\ planned = NothingPlanned
  /\ positions = <<>>
  /\ closures = <<>>
  /\ animations = <<>>

Files == HandFiles \cup ({disk} \ {NoFile})

Parse ==
  /\ \E text \in Texts, fault \in Faults : HandleParse(text, fault)
  /\ UNCHANGED <<planned, positions, closures, animations>>
Select == \E nodeId \in NodeIds : TapNode(nodeId)
Deselect == TapBackground
Save == HandleSave
Load ==
  /\ \E file \in Files, fault \in Faults : HandleLoad(file, fault)
  /\ UNCHANGED <<planned, positions, closures, animations>>
Settled ==
  /\ \E i \in 1..(MaxInflight + 1) : Settle(i)
  /\ UNCHANGED <<closures, animations>>

Next == Parse \/ Select \/ Deselect \/ Save \/ Load \/ Settled

Spec == Init /\ [][Next]_vars

----------------------------------------------------------------------------
(* The highlight on larger graphs: the app right after loading a graph of  *)
(* up to MaxEdges edges on five nodes, then taps only.                     *)

NodeOrder == <<"a", "b", "c", "d", "e">>

\* the unordered pairs of nodes, self-loops included
PairUniverse ==
  <<<<1, 1>>, <<1, 2>>, <<1, 3>>, <<1, 4>>, <<1, 5>>, <<2, 2>>, <<2, 3>>, <<2, 4>>,
    <<2, 5>>, <<3, 3>>, <<3, 4>>, <<3, 5>>, <<4, 4>>, <<4, 5>>, <<5, 5>>>>

\* non-decreasing index sequences: one per multiset of pairs
RECURSIVE SortedSeqs(_)
SortedSeqs(n) ==
  IF n = 0 THEN {<<>>}
  ELSE LET shorter == SortedSeqs(n - 1) IN
       shorter \cup
       UNION {{Append(s, k) : k \in (IF s = <<>> THEN 1 ELSE s[Len(s)])..Len(PairUniverse)}
                : s \in {t \in shorter : Len(t) = n - 1}}

GraphOf(s) ==
  GraphValue([i \in 1..Len(NodeOrder) |-> [id |-> NodeOrder[i]]],
             [i \in 1..Len(s) |-> [from |-> NodeOrder[PairUniverse[s[i]][1]],
                                   to |-> NodeOrder[PairUniverse[s[i]][2]],
                                   weight |-> 1]])

HighlightGraphs == {GraphOf(s) : s \in SortedSeqs(MaxEdges)}

InitHighlight ==
  \E g \in HighlightGraphs :
    /\ graphData = g
    /\ elements = toCytoscapeFormat(g).elements
    /\ selectedNode = NULL
    /\ connectedNodes = <<>>
    /\ nodeClasses = [n \in CyNodes(toCytoscapeFormat(g).elements) |-> {}]
    /\ edgeClasses = [i \in CyEdges(toCytoscapeFormat(g).elements) |-> {}]
    /\ layouts = LayoutEffect(toCytoscapeFormat(g).elements, NoFault)
    /\ planned = NothingPlanned
    /\ positions = <<>>
    /\ closures = <<>>
    /\ animations = <<>>
    /\ settled = 0
    /\ refinerCalls = 0
    /\ disk = NoFile
    /\ alertMsg = NONE
    /\ lastTurn = "load"

NextHighlight == Select \/ Deselect

SpecHighlight == InitHighlight /\ [][NextHighlight]_vars

----------------------------------------------------------------------------
(* Persistence: the app used through the input panel and the Save and Load *)
(* buttons only, with no taps on the canvas.                               *)

NextPersist == Parse \/ Save \/ Load \/ Settled

SpecPersist == Init /\ [][NextPersist]_vars

----------------------------------------------------------------------------
(* Selection and the layout: the app used through the input panel and the  *)
(* canvas, with no file.                                                   *)

NextTap == Parse \/ Select \/ Deselect \/ Settled

SpecTap == Init /\ [][NextTap]_vars

----------------------------------------------------------------------------
(* Selection and graph changes: parse, save and load with taps on nodes,   *)
(* the relaxations left running.                                           *)

NextSwap == Parse \/ Select \/ Save \/ Load

SpecSwap == Init /\ [][NextSwap]_vars

----------------------------------------------------------------------------
(* The parser on texts with malformed lines: the app used through the      *)
(* input panel only.                                                       *)

ParseLineUniverse ==
  { Rel("a", <<0, 8>>, "b"),
    <<"{", " ", "b", " ", "}", "(", "6", ")", "{", "c", " ", "d", "}">>,
    Garbage,
    Rel("a", <<0>>, "b"),
    Rel("a", <<1, 2, 3>>, "b"),
    Rel("b", <<7>>, "b"),
    <<"see", " ">> \o Rel("c", <<9, 9>>, "a") }

ParseTexts == UNION {[1..n -> ParseLineUniverse] : n \in 0..MaxLines}

ParseInput ==
  /\ \E text \in ParseTexts, fault \in Faults : HandleParse(text, fault)
  /\ UNCHANGED <<planned, positions, closures, animations>>

NextParse == ParseInput \/ Settled

SpecParse == Init /\ [][NextParse]_vars

----------------------------------------------------------------------------
(* Scoring and planning: the app loading one saved graph, whatever the     *)
(* engine's centrality does.  Small graphs on three nodes, some of them    *)
(* isolated, with parallel edges, self-loops and weights 0, 1 and 99; and  *)
(* chains of up to MaxTierNodes nodes.                                     *)

MaxLayoutEdges == 2
MaxBetweenness == 1
MaxTierNodes == 10

LayoutNodeOrder == <<"a", "b", "c">>

LayoutWeights == <<0, 1, 99>>

LayoutPairs == <<<<1, 1>>, <<1, 2>>, <<1, 3>>, <<2, 2>>, <<2, 3>>, <<3, 3>>>>

\* edge kind k: pair (k - 1) \div 3 + 1 with weight (k - 1) % 3 + 1
LayoutEdge(k) ==
  [from |-> LayoutNodeOrder[LayoutPairs[((k - 1) \div Len(LayoutWeights)) + 1][1]],
   to |-> LayoutNodeOrder[LayoutPairs[((k - 1) \div Len(LayoutWeights)) + 1][2]],
   weight |-> LayoutWeights[((k - 1) % Len(LayoutWeights)) + 1]]

\* non-decreasing sequences of edge kinds: one per multiset of edges
RECURSIVE KindSeqs(_)
KindSeqs(n) ==
  IF n = 0 THEN {<<>>}
  ELSE LET shorter == KindSeqs(n - 1) IN
       shorter \cup
       UNION {{Append(s, k) : k \in (IF s = <<>> THEN 1 ELSE s[Len(s)])
                                      ..(Len(LayoutPairs) * Len(LayoutWeights))}
                : s \in {t \in shorter : Len(t) = n - 1}}

SmallGraph(s) ==
  GraphValue([i \in 1..Len(LayoutNodeOrder) |-> [id |-> LayoutNodeOrder[i]]],
             [i \in 1..Len(s) |-> LayoutEdge(s[i])])

WideNames ==
  <<"n01", "n02", "n03", "n04", "n05", "n06", "n07", "n08", "n09", "n10", "n11", "n12">>

\* a chain n01 - n02 - ... of n nodes whose weights grow along the chain
WideGraph(n) ==
  GraphValue([i \in 1..n |-> [id |-> WideNames[i]]],
             [i \in 1..(n - 1) |-> [from |-> WideNames[i], to |-> WideNames[i + 1],
                                    weight |-> i]])

\* the small graphs with the nodes a, b, c named b, 2, 1
Numbered(id) == IF id = "a" THEN "b" ELSE IF id = "b" THEN "2" ELSE "1"

NumberedGraph(s) ==
  GraphValue([i \in 1..Len(LayoutNodeOrder) |-> [id |-> Numbered(LayoutNodeOrder[i])]],
             [i \in 1..Len(s) |-> [from |-> Numbered(LayoutEdge(s[i]).from),
                                   to |-> Numbered(LayoutEdge(s[i]).to),
                                   weight |-> LayoutEdge(s[i]).weight]])

LayoutGraphs ==
  {SmallGraph(s) : s \in KindSeqs(MaxLayoutEdges)}
    \cup {NumberedGraph(s) : s \in KindSeqs(MaxLayoutEdges)}
    \cup {WideGraph(n) : n \in 1..MaxTierNodes}

\* A node lies between two others only if it has two neighbours besides
\* itself: the betweenness of any other node is 0
CanBridge(cy, n) ==
  Cardinality({m \in CyNodes(cy) \ {n} :
                 \E i \in CyEdges(cy) :
                    \/ cy.edges[i].source = n /\ cy.edges[i].target = m
                    \/ cy.edges[i].target = n /\ cy.edges[i].source = m}) >= 2

\* What centrality.betweenness can report for the first k nodes of cy
BetweennessReports(cy, k) ==
  IF Len(cy.nodes) <= Len(LayoutNodeOrder)
  THEN {r \in [1..k -> 0..MaxBetweenness] :
          \A i \in 1..k : ~CanBridge(cy, cy.nodes[i].id) => r[i] = 0}
  ELSE {[i \in 1..k |-> IF CanBridge(cy, cy.nodes[i].id)
                        THEN 1 + (i % MaxBetweenness) ELSE 0]}

\* The engine runs: no centrality on the build, a working one, one that
\* throws at node k + 1 after reporting k values, a throwing engine
LayoutFaults(cy) ==
  {NoFault, EngineFault}
    \cup {EngineRun("none", "ok", Len(cy.nodes), v) :
            v \in BetweennessReports(cy, Len(cy.nodes))}
    \cup UNION {{EngineRun("none", "throws", k, v) : v \in BetweennessReports(cy, k)}
                  : k \in 0..(Len(cy.nodes) - 1)}

LayoutFiles == {saveToJsonFile(g) : g \in LayoutGraphs}

InitLayout ==
  /\ graphData = GraphValue(<<>>, <<>>)
  /\ elements = NoElements
  /\ selectedNode = NULL
  /\ connectedNodes = <<>>
  /\ nodeClasses = <<>>
  /\ edgeClasses = <<>>
  /\ layouts = <<>>
  /\ settled = 0
  /\ refinerCalls = 0
  /\ disk \in LayoutFiles
  /\ alertMsg = NONE
  /\ lastTurn = "init"
  /\ planned = NothingPlanned
  /\ positions = <<>>
  /\ closures = <<>>
  /\ animations = <<>>

\* The first thing the user does is load the saved file; the values its
\* layout effect computes are kept in planned
LoadSaved ==
  /\ lastTurn = "init"
  /\ \E r \in {loadFromJsonFile(disk)} :
     \E fault \in LayoutFaults(toCytoscapeFormat(r.graphData).elements) :
        /\ HandleLoad(disk, fault)
        /\ planned' = IF lastTurn' = "load"
                      THEN LayoutValues(elements', fault) ELSE planned
        /\ UNCHANGED <<positions, closures, animations>>

NextLayout == LoadSaved \/ Settled

SpecLayout == InitLayout /\ [][NextLayout]_vars

----------------------------------------------------------------------------
(* The graph model on its own: a caller builds a graph with addNode and    *)
(* addEdge, starting from createGraph().  The graph object is graphData.   *)

MaxGraphEdges == 2   \* addEdge calls on one graph

GraphIds == {"a", "b", "c"}
GraphWeights == {1, 2}

InitGraph ==
  /\ graphData = createGraph
  /\ elements = NoElements
  /\ selectedNode = NULL
  /\ connectedNodes = <<>>
  /\ nodeClasses = <<>>
  /\ edgeClasses = <<>>
  /\ layouts = <<>>
  /\ settled = 0
  /\ refinerCalls = 0
  /\ disk = NoFile
  /\ alertMsg = NONE
  /\ lastTurn = "init"
  /\ planned = NothingPlanned
  /\ positions = <<>>
  /\ closures = <<>>
  /\ animations = <<>>

\* addNode(graph, nodeId); lastTurn keeps the branch the call took
CallAddNode(nodeId) ==
  /\ graphData' = addNode(graphData, nodeId)
  /\ lastTurn' = IF HasNode(graphData, nodeId) THEN "addNode:present" ELSE "addNode:pushed"
  /\ UNCHANGED <<elements, selectedNode, connectedNodes, nodeClasses, edgeClasses,
                 layouts, settled, refinerCalls, disk, alertMsg, planned,
                 positions, closures, animations>>

\* addEdge(graph, fromNode, toNode, weight)
CallAddEdge(fromNode, toNode, weight) ==
  /\ Len(graphData.edges) < MaxGraphEdges
  /\ graphData' = addEdge(graphData, fromNode, toNode, weight)
  /\ lastTurn' = "addEdge"
  /\ UNCHANGED <<elements, selectedNode, connectedNodes, nodeClasses, edgeClasses,
                 layouts, settled, refinerCalls, disk, alertMsg, planned,
                 positions, closures, animations>>

AddNode == \E nodeId \in GraphIds : CallAddNode(nodeId)
AddEdge == \E fromNode \in GraphIds, toNode \in GraphIds, weight \in GraphWeights :
              CallAddEdge(fromNode, toNode, weight)

NextGraph == AddNode \/ AddEdge

SpecGraph == InitGraph /\ [][NextGraph]_vars

----------------------------------------------------------------------------
(* The refiner pass: minimizeCrossingsByNodeAdjustment called once with    *)
(* the penalties and tiers planned for the graph on display, wherever the  *)
(* relaxation has left the nodes.                                          *)

MaxRefinerEdges == 2   \* edges of the three-node graphs
MaxRefinerNodes == 4   \* nodes of the longest chain

ViewWidth == 800
ViewHeight == 600

Viewport == [width |-> ViewWidth, height |-> ViewHeight]

\* where the relaxation may have left a node: the centre of the viewport
\* and two other points
RefinerPoints ==
  {[y |-> 300, x |-> 400], [y |-> 300, x |-> 100], [y |-> 700, x |-> 400]}

RefinerGraphs ==
  {SmallGraph(s) : s \in KindSeqs(MaxRefinerEdges)}
    \cup {NumberedGraph(s) : s \in KindSeqs(MaxRefinerEdges)}
    \cup {WideGraph(n) : n \in 1..MaxRefinerNodes}

InitRefiner ==
  /\ graphData \in RefinerGraphs
  /\ elements = toCytoscapeFormat(graphData).elements
  /\ selectedNode = NULL
  /\ connectedNodes = <<>>
  /\ nodeClasses = [n \in CyNodes(elements) |-> {}]
  /\ edgeClasses = [i \in CyEdges(elements) |-> {}]
  /\ layouts = <<>>
  /\ settled = 1
  /\ refinerCalls = 0
  /\ disk = NoFile
  /\ alertMsg = NONE
  /\ lastTurn = "settle"
  /\ planned = LayoutValues(elements, NoFault)
  /\ positions \in [CyNodes(elements) -> RefinerPoints]
  /\ closures = <<>>
  /\ animations = <<>>

\* The stop function of the options createOptimizedLayout built
Refine ==
  /\ refinerCalls = 0
  /\ \E cy \in {minimizeCrossingsByNodeAdjustment(
                   Engine(elements, Viewport, positions),
                   planned.enhanced.layout.crossingPenalties,
                   TierEntries(planned.enhanced.importanceScores))} :
       /\ positions' = cy.positions
       /\ animations' = cy.animations
  /\ refinerCalls' = refinerCalls + 1
  /\ lastTurn' = "refine"
  /\ UNCHANGED <<graphData, elements, selectedNode, connectedNodes, nodeClasses,
                 edgeClasses, layouts, settled, disk, alertMsg, planned, closures>>

NextRefiner == Refine

SpecRefiner == InitRefiner /\ [][NextRefiner]_vars

----------------------------------------------------------------------------
(* Stop callbacks: the app used through the input panel and the Save and   *)
(* Load buttons, with what the stop function of every relaxation in flight *)
(* closes over, and the animations the stop function that ran last asked   *)
(* for.                                                                    *)

\* the closures of the relaxations still in flight, then those of the new
ClosuresAfter(fault) ==
  IF lastTurn' \in {"parse", "load"}
  THEN closures' = closures \o StopClosures(elements', fault)
  ELSE closures' = closures

ParseStop ==
  \E text \in Texts, fault \in Faults :
     /\ HandleParse(text, fault)
     /\ ClosuresAfter(fault)
     /\ UNCHANGED <<planned, positions, animations>>

LoadStop ==
  \E file \in Files, fault \in Faults :
     /\ HandleLoad(file, fault)
     /\ ClosuresAfter(fault)
     /\ UNCHANGED <<planned, positions, animations>>

\* Relaxation i settles and the engine calls its stop function, which
\* works on the nodes cy holds now
Stop(i) ==
  /\ Settle(i)
  /\ closures' = SubSeq(closures, 1, i - 1) \o SubSeq(closures, i + 1, Len(closures))
  /\ animations' = FallbackStop(Engine(elements, Viewport, <<>>),
                                closures[i].normalizedWeights,
                                elements.nodes).animations

Stopped == \E i \in 1..(MaxInflight + 1) : Stop(i)

NextStop == ParseStop \/ Save \/ LoadStop \/ Stopped

SpecStop == Init /\ [][NextStop]_vars

----------------------------------------------------------------------------
(* Hop distance in the displayed graph, for stating the highlight claims   *)

Neighbours(els, S) ==
  {m \in CyNodes(els) :
     \E i \in CyEdges(els) :
        \/ els.edges[i].source \in S /\ els.edges[i].target = m
        \/ els.edges[i].target \in S /\ els.edges[i].source = m}

RECURSIVE Within(_, _, _)
Within(els, n, k) ==
  IF k = 0 THEN {n} \cap CyNodes(els)
  ELSE Bind(Within(els, n, k - 1), LAMBDA S : S \cup Neighbours(els, S))

AtDistance(els, n, k) ==
  IF k = 0 THEN Within(els, n, 0) ELSE Within(els, n, k) \ Within(els, n, k - 1)

ExpectedNodeClasses(els, n, m) ==
  IF m = n THEN {"selected"}
  ELSE IF m \in AtDistance(els, n, 1) THEN {"connected-1"}
  ELSE IF m \in AtDistance(els, n, 2) THEN {"connected-2"}
  ELSE IF m \in AtDistance(els, n, 3) THEN {"connected-3"}
  ELSE {}

ExpectedEdgeClasses(els, n, i) ==
  IF n \in edgeConnectedNodes(els, i) THEN {"connected-1"}
  ELSE IF edgeConnectedNodes(els, i) \cap AtDistance(els, n, 1) # {} THEN {"connected-2"}
  ELSE IF edgeConnectedNodes(els, i) \cap AtDistance(els, n, 2) # {} THEN {"connected-3"}
  ELSE {}

NoHighlight ==
  /\ \A n \in DOMAIN nodeClasses : nodeClasses[n] \cap Classes = {}
  /\ \A i \in DOMAIN edgeClasses : edgeClasses[i] \cap Classes = {}

Idle == selectedNode = NULL

CurrentRelaxations(ls) == {i \in 1..Len(ls) : ls[i].cur}

ParsedGraphs == {parseText(text) : text \in Texts}

SavedFiles == [g \in ParsedGraphs |-> saveToJsonFile(g)]

----------------------------------------------------------------------------
(* Claims                                                                  *)

\* C1: once a background tap has emptied the selection, no node and no
\* edge carries any of the classes selected, connected-1, connected-2,
\* connected-3.
C1_DeselectClearsTags == lastTurn = "deselect" => NoHighlight

\* C2: after a propagation from the selected node n, n is tagged selected,
\* every other node is tagged connected-k exactly when its hop distance
\* from n is k (k = 1, 2, 3), and nodes farther away or unreachable carry
\* no tag.
C2_NodeTagsAreHopDistance ==
  ~Idle =>
    \A m \in CyNodes(elements) :
       nodeClasses[m] = ExpectedNodeClasses(elements, selectedNode, m)

C2_Witness ==
  /\ ~Idle
  /\ lastTurn \in {"select", "reselect"}
  /\ \E m \in AtDistance(elements, selectedNode, 3) : nodeClasses[m] = {"connected-3"}
  /\ \E m \in AtDistance(elements, selectedNode, 4) : nodeClasses[m] = {}

\* C3: after a propagation from n, the edges incident to n are tagged
\* connected-1, the other edges incident to a distance-1 node connected-2,
\* the other edges incident to a distance-2 node connected-3, and every
\* remaining edge carries no tag.
C3_EdgeTagsFollowHops ==
  ~Idle =>
    \A i \in CyEdges(elements) :
       edgeClasses[i] = ExpectedEdgeClasses(elements, selectedNode, i)

C3_Witness ==
  /\ ~Idle
  /\ lastTurn \in {"select", "reselect"}
  /\ \E i \in CyEdges(elements) : edgeClasses[i] = {"connected-3"}
  /\ \E i \in CyEdges(elements) :
        /\ edgeClasses[i] = {}
        /\ edgeConnectedNodes(elements, i) \cap AtDistance(elements, selectedNode, 3) # {}

\* C4: no node and no edge ever carries more than one of the four tags.
C4_AtMostOneTag ==
  /\ \A n \in DOMAIN nodeClasses : Cardinality(nodeClasses[n] \cap Classes) <= 1
  /\ \A i \in DOMAIN edgeClasses : Cardinality(edgeClasses[i] \cap Classes) <= 1

\* a cycle through the selected node, closed by an edge between two of its
\* neighbours, and a self-loop on one of them
C4_Witness ==
  /\ ~Idle
  /\ \E i \in CyEdges(elements) :
        /\ elements.edges[i].source # elements.edges[i].target
        /\ edgeConnectedNodes(elements, i) \subseteq AtDistance(elements, selectedNode, 1)
        /\ edgeClasses[i] = {"connected-2"}
  /\ \E i \in CyEdges(elements) :
        /\ elements.edges[i].source = elements.edges[i].target
        /\ elements.edges[i].source \in AtDistance(elements, selectedNode, 1)
        /\ edgeClasses[i] = {"connected-2"}

\* C5: tapping a node while another one is selected leaves exactly the
\* tags a propagation from the tapped node gives on an untagged graph.
C5_FullRetag ==
  [][(~Idle /\ selectedNode' # NULL /\ selectedNode' # selectedNode) =>
       LET fresh == HighlightEffect(elements',
                                    [n \in CyNodes(elements') |-> {}],
                                    [i \in CyEdges(elements') |-> {}],
                                    selectedNode')
       IN nodeClasses' = fresh.nc /\ edgeClasses' = fresh.ec]_vars

C5_Witness ==
  /\ lastTurn = "reselect"
  /\ \E i \in CyEdges(elements) : edgeClasses[i] = {"connected-3"}
  /\ \E m \in CyNodes(elements) : nodeClasses[m] = {}

\* C6: a graph change with at least one node whose scoring and planning do
\* not fail runs the relaxation with the enhanced strategy.
C6_EnhancedWhenNoFailure ==
  [][(/\ lastTurn' \in {"parse", "load"}
      /\ Len(elements'.nodes) > 0
      /\ layouts' = Superseded(layouts) \o LayoutEffect(elements', NoFault))
     => \E i \in CurrentRelaxations(layouts') : layouts'[i].strategy = "enhanced"]_vars

\* C7: for the displayed graph, when it has a node,
\* minimizeCrossingsByNodeAdjustment has run exactly once if its relaxation
\* has reported completion, and not at all before that.
C7_RefinerOncePerChange ==
  Len(elements.nodes) > 0 => refinerCalls = (IF settled > 0 THEN 1 ELSE 0)

\* C8: every graph change with at least one node starts exactly one
\* relaxation, the fallback one whenever the enhanced path threw; a change
\* to zero nodes starts none.
C8_OneRelaxationPerChange ==
  [][lastTurn' \in {"parse", "load"} =>
       IF Len(elements'.nodes) > 0
       THEN /\ Cardinality(CurrentRelaxations(layouts')) = 1
            /\ \A fault \in Faults :
                 (/\ layouts' = Superseded(layouts)
                                  \o LayoutEffect(elements', fault)
                  /\ EnhancedAttempt(fault).outcome # "ran")
                 => \A i \in CurrentRelaxations(layouts') :
                       layouts'[i].strategy = "fallback"
       ELSE CurrentRelaxations(layouts') = {}]_vars

\* a change while the previous relaxation was still in flight
C8_Witness ==
  /\ lastTurn \in {"parse", "load"}
  /\ Len(elements.nodes) > 0
  /\ Len(layouts) = 2
  /\ ~layouts[1].cur
  /\ layouts[2].cur /\ layouts[2].strategy = "fallback"

\* C9: loading a file that is not JSON, or is JSON but no graph, raises an
\* alert and leaves graphData, elements, selectedNode and connectedNodes as
\* they were.
C9_FailedLoadChangesNothing ==
  [][\A file \in Files : \A fault \in Faults :
       (FileClass(file) \in {"invalidJson", "schemaMismatch"} /\ HandleLoad(file, fault))
       => /\ alertMsg' # NONE
          /\ graphData' = graphData
          /\ elements' = elements
          /\ selectedNode' = selectedNode
          /\ connectedNodes' = connectedNodes]_vars

\* C10: loading the file that Save wrote for a parsed graph g makes
\* graphData equal to g again: same nodes, same edges in the same order
\* with the same endpoints and weights.
C10_SaveLoadRoundTrip ==
  [][(/\ lastTurn' \in {"load", "loadFailed"}
      /\ disk # NoFile
      /\ \E fault \in Faults : HandleLoad(disk, fault))
     => \A g \in ParsedGraphs :
           disk = SavedFiles[g] => graphData' = g /\ alertMsg' = NONE]_vars

\* the saved two-edge graph is loaded back over a different one
C10_Witness ==
  /\ lastTurn = "load"
  /\ graphData \in ParsedGraphs
  /\ disk = SavedFiles[graphData]
  /\ Len(graphData.nodes) >= 3
  /\ Len(graphData.edges) >= 2
  /\ \E i \in 1..Len(layouts) : ~layouts[i].cur

\* A line that is a relation and nothing else: {A}(W){B} with A and B free
\* of braces and W one or two digits, blanks around it allowed.
RelationShape(l, p, n) ==
  /\ p > 2 /\ Len(l) > p + 4 + n
  /\ l[1] = "{" /\ l[p] = "}" /\ l[p + 1] = "("
  /\ \A k \in 2..(p - 1) : l[k] \notin {"{", "}"}
  /\ \A k \in 1..n : IsDigit(l[p + 1 + k])
  /\ l[p + 2 + n] = ")" /\ l[p + 3 + n] = "{" /\ l[Len(l)] = "}"
  /\ \A k \in (p + 4 + n)..(Len(l) - 1) : l[k] \notin {"{", "}"}

IsRelationLine(line) ==
  \E p \in 1..Len(line), n \in 1..2 : RelationShape(trimEnd(trimStart(line)), p, n)

RelationEdge(line) ==
  LET l == trimEnd(trimStart(line))
      pn == CHOOSE pn \in (1..Len(l)) \X (1..2) : RelationShape(l, pn[1], pn[2])
  IN [from |-> trim(SubSeq(l, 2, pn[1] - 1)),
      to |-> trim(SubSeq(l, pn[1] + 4 + pn[2], Len(l) - 1)),
      weight |-> parseInt(SubSeq(l, pn[1] + 2, pn[1] + 1 + pn[2]))]

RECURSIVE FirstAppearances(_, _)
FirstAppearances(es, seen) ==
  IF es = <<>> THEN seen
  ELSE FirstAppearances(Tail(es), SetAdd(SetAdd(seen, Head(es).from), Head(es).to))

ExpectedParse(text) ==
  LET rels == SelectSeq(text, IsRelationLine)
      es == [i \in 1..Len(rels) |-> RelationEdge(rels[i])]
      ns == FirstAppearances(es, <<>>)
  IN GraphValue([i \in 1..Len(ns) |-> [id |-> ns[i]]], es)

C12_WeightsInRange ==
  \A i \in 1..Len(graphData.edges) : graphData.edges[i].weight \in 1..99

\* the ids joined to id by an edge of the graph, id itself left out
NeighbourIds(graph, id) ==
  {n \in NodeIds \ {id} :
     \E i \in 1..Len(graph.edges) :
        \/ graph.edges[i].from = id /\ graph.edges[i].to = n
        \/ graph.edges[i].to = id /\ graph.edges[i].from = n}

\* C20: the neighbour list of the selected node holds each distinct
\* neighbour id exactly once and never the node's own id, self-loops and
\* parallel edges included.
C20_DistinctNeighboursSelfExcluded ==
  ~Idle =>
    /\ Range(connectedNodes) = NeighbourIds(graphData, selectedNode)
    /\ Len(connectedNodes) = Cardinality(Range(connectedNodes))

\* The scorings of the last layout run: the score entries of the try block
\* with the normalized value stored in each, and those of the catch block
\* with the map getNormalizedWeights returned
ScoredRuns ==
  (IF planned.enhanced.computed
   THEN {[scores |-> planned.enhanced.importanceScores,
          normalized |-> [id \in Keys(planned.enhanced.importanceScores) |->
                            Entry(planned.enhanced.importanceScores, id).normalized]]}
   ELSE {})
  \cup
  (IF planned.fallback.computed
   THEN {[scores |-> planned.fallback.importanceScores,
          normalized |-> planned.fallback.layout.normalizedWeights]}
   ELSE {})

CompositeScores(scores) == {scores[i].compositeScore : i \in 1..Len(scores)}
Lowest(scores) ==
  CHOOSE x \in CompositeScores(scores) : \A y \in CompositeScores(scores) : RLeq(x, y)
Highest(scores) ==
  CHOOSE x \in CompositeScores(scores) : \A y \in CompositeScores(scores) : RLeq(y, x)

\* C13: for a non-empty score set every node gets a normalized value in
\* [0,1]; when the scores differ the lowest score gets 0, the highest 1 and
\* the others lie linearly in between; when all are equal every node gets 1/2.
C13_NormalizedIsMinMaxRescale ==
  \A run \in ScoredRuns :
    Len(run.scores) > 0 =>
      /\ DOMAIN run.normalized = Keys(run.scores)
      /\ \A i \in 1..Len(run.scores) :
           LET score == run.scores[i].compositeScore
               value == run.normalized[run.scores[i].id]
               lo == Lowest(run.scores)
               hi == Highest(run.scores)
           IN /\ RLeq(Num(0), value) /\ RLeq(value, Num(1))
              /\ lo = hi => value = Rat(1, 2)
              /\ lo # hi =>
                   /\ score = lo => value = Num(0)
                   /\ score = hi => value = Num(1)
                   /\ RMul(value, RSub(hi, lo)) = RSub(score, lo)

\* three different scores, the middle one strictly between 0 and 1
C13_Witness ==
  \E run \in ScoredRuns :
    \E i \in 1..Len(run.scores) :
      /\ Lowest(run.scores)[1] > 0
      /\ RLess(Num(0), run.normalized[run.scores[i].id])
      /\ RLess(run.normalized[run.scores[i].id], Num(1))

\* The basic (degree and weight) part of every score of the last layout
\* run: in the try block the composite score less the centrality's share
BasicRuns ==
  (IF planned.enhanced.computed
   THEN {[i \in 1..Len(planned.enhanced.importanceScores) |->
            LET e == planned.enhanced.importanceScores[i]
            IN [id |-> e.id, degree |-> e.degree, totalWeight |-> e.totalWeight,
                avgWeight |-> e.avgWeight,
                basic |-> RSub(e.compositeScore, Num(5 * e.betweenness))]]}
   ELSE {})
  \cup
  (IF planned.fallback.computed
   THEN {[i \in 1..Len(planned.fallback.importanceScores) |->
            LET e == planned.fallback.importanceScores[i]
            IN [id |-> e.id, degree |-> e.degree, totalWeight |-> e.totalWeight,
                avgWeight |-> e.avgWeight, basic |-> e.compositeScore]]}
   ELSE {})

IncidentEdges(els, id) ==
  {i \in 1..Len(els.edges) : els.edges[i].source = id \/ els.edges[i].target = id}

\* the weights of the edges among the first k that touch id, added up
RECURSIVE IncidentWeight(_, _, _)
IncidentWeight(els, id, k) ==
  IF k = 0 THEN 0
  ELSE IncidentWeight(els, id, k - 1)
       + (IF k \in IncidentEdges(els, id) THEN els.edges[k].weight ELSE 0)

\* C14: every node's degree is the number of its incident edges, parallel
\* ones each counted, its totalWeight their weights added up, its avgWeight
\* totalWeight/degree (0 for degree 0) and its basic composite score
\* degree * (avgWeight if avgWeight > 0 else 1); an isolated node has degree
\* 0 and score 0, and in a graph without edges every node normalizes to 1/2.
C14_BasicScoreFormula ==
  /\ \A scores \in BasicRuns :
       /\ {scores[i].id : i \in 1..Len(scores)} = CyNodes(elements)
       /\ \A i \in 1..Len(scores) :
            LET e == scores[i]
                incident == IncidentEdges(elements, e.id)
            IN /\ e.degree = Cardinality(incident)
               /\ e.totalWeight = IncidentWeight(elements, e.id, Len(elements.edges))
               /\ e.avgWeight = IF e.degree > 0 THEN Rat(e.totalWeight, e.degree)
                                ELSE Num(0)
               /\ e.basic = RMul(Num(e.degree),
                                 IF RLess(Num(0), e.avgWeight) THEN e.avgWeight
                                 ELSE Num(1))
               /\ incident = {} => e.degree = 0 /\ e.basic = Num(0)
  /\ \A run \in ScoredRuns :
       Len(elements.edges) = 0 =>
         \A id \in Keys(run.scores) : run.normalized[id] = Rat(1, 2)

\* a scored graph with an isolated node and a node on two edges whose
\* average weight is not a whole number
C14_Witness ==
  \E scores \in BasicRuns :
    /\ \E i \in 1..Len(scores) : scores[i].degree = 0
    /\ \E i \in 1..Len(scores) :
         /\ scores[i].degree = 2
         /\ scores[i].avgWeight[2] = 2

\* C15: when the centrality capability is missing, or throws after any
\* number of nodes were read, calculateEnhancedImportance still returns:
\* every node has an entry with betweenness 0, a composite score equal to
\* its degree and weight score, and a normalized value.
C15_CentralityFailureDegradesToZero ==
  (planned.run.kind = "none" /\ planned.run.centrality \in {"missing", "throws"}) =>
    /\ planned.enhanced.computed
    /\ Keys(planned.enhanced.importanceScores) = CyNodes(elements)
    /\ \A i \in 1..Len(planned.enhanced.importanceScores) :
         LET e == planned.enhanced.importanceScores[i] IN
         /\ e.betweenness = 0
         /\ e.compositeScore = RMul(Num(e.degree),
                                    IF RLess(Num(0), e.avgWeight) THEN e.avgWeight
                                    ELSE Num(1))
         /\ RLeq(Num(0), e.normalized) /\ RLeq(e.normalized, Num(1))

\* the centrality threw after reporting a nonzero betweenness
C15_Witness ==
  /\ planned.run.kind = "none" /\ planned.run.centrality = "throws"
  /\ planned.run.after >= 1 /\ planned.run.values[1] > 0
  /\ planned.enhanced.computed
  /\ Len(planned.enhanced.importanceScores) > planned.run.after

\* the number of ranks i in 0..n-1 whose percentile i/n is in [lo/10, hi/10)
RanksBetween(n, lo, hi) ==
  Cardinality({i \in 0..(n - 1) : lo * n <= 10 * i /\ 10 * i < hi * n})

\* how many nodes a tier map puts in tier t
TierSize(tiers, t) == Cardinality({id \in DOMAIN tiers : tiers[id] = t})

\* C16: every scored node gets exactly one tier in 0..3; ranked by
\* descending composite score, the node at rank i of n is in tier 0 when
\* i/n < 0.1, tier 1 when 0.1 <= i/n < 0.3, tier 2 when 0.3 <= i/n < 0.6 and
\* tier 3 otherwise; so for n a multiple of 10 the tiers hold 10%, 20%, 30%
\* and 40% of the nodes, and tier 0 is never empty.
C16_TiersByRank ==
  planned.enhanced.computed =>
    LET scores == planned.enhanced.importanceScores
        tiers == planned.enhanced.layout.nodeTiers
        n == Len(scores)
    IN /\ DOMAIN tiers = Keys(scores)
       /\ \A id \in DOMAIN tiers : tiers[id] \in 0..3
       /\ TierSize(tiers, 0) = RanksBetween(n, 0, 1)
       /\ TierSize(tiers, 1) = RanksBetween(n, 1, 3)
       /\ TierSize(tiers, 2) = RanksBetween(n, 3, 6)
       /\ TierSize(tiers, 3) = RanksBetween(n, 6, 10)
       /\ \A i, j \in 1..n :
            RLess(scores[j].compositeScore, scores[i].compositeScore)
              => tiers[scores[i].id] <= tiers[scores[j].id]
       /\ n % 10 = 0 =>
            /\ 10 * TierSize(tiers, 0) = n
            /\ 10 * TierSize(tiers, 1) = 2 * n
            /\ 10 * TierSize(tiers, 2) = 3 * n
            /\ 10 * TierSize(tiers, 3) = 4 * n
       /\ n > 0 => TierSize(tiers, 0) > 0

\* ten scored nodes with different scores
C16_Witness ==
  /\ planned.enhanced.computed
  /\ Len(planned.enhanced.importanceScores) = 10
  /\ Cardinality(CompositeScores(planned.enhanced.importanceScores)) > 4

\* C17: for a graph of two nodes or more the penalties hold a value for
\* every ordered pair of distinct nodes, the same for (A, B) and (B, A).
C17_PenaltiesSymmetric ==
  (planned.enhanced.computed /\ Len(elements.nodes) >= 2) =>
    LET penalties == planned.enhanced.layout.crossingPenalties IN
    /\ DOMAIN penalties = CyNodes(elements)
    /\ \A x \in CyNodes(elements) :
         /\ DOMAIN penalties[x] = CyNodes(elements) \ {x}
         /\ \A y \in CyNodes(elements) \ {x} : penalties[x][y] = penalties[y][x]

\* a pair whose estimate depends on which node is taken first: the shared
\* connections are counted on the first node's list
C17_Witness ==
  /\ planned.enhanced.computed
  /\ \E x, y \in CyNodes(elements) :
       x # y /\ PairPenalty(elements, x, y) # PairPenalty(elements, y, x)

\* max(50, 200 - (weight/20)*70 - (importance/25)*50)
LengthFor(weight, importance) ==
  RMax(Num(50),
       RSub(RSub(Num(200), RMul(Rat(weight, 20), Num(70))),
            RMul(RDiv(importance, Num(25)), Num(50))))

\* the larger normalized importance of the two ends of edge i
EndNormalized(i) ==
  RMax(Entry(planned.enhanced.importanceScores, elements.edges[i].source).normalized,
       Entry(planned.enhanced.importanceScores, elements.edges[i].target).normalized)

\* the larger composite score of the two ends of edge i, a score of 0
\* counting as 1
EndCompositeScore(i) ==
  LET scoreOf(id) ==
        LET c == Entry(planned.enhanced.importanceScores, id).compositeScore
        IN IF c = Num(0) THEN Num(1) ELSE c
  IN RMax(scoreOf(elements.edges[i].source), scoreOf(elements.edges[i].target))

PlannedLength(i) == planned.enhanced.layout.idealEdgeLength[i]

\* C18 as stated: the ideal length of every edge is max(50, 200 -
\* (weight/20)*70 - (m/25)*50) with m the larger normalized importance of
\* its ends; it is never below 50 and never grows with the weight or with m.
C18_EdgeLengthFromNormalized ==
  planned.enhanced.computed =>
    /\ \A i \in CyEdges(elements) :
         /\ PlannedLength(i) = LengthFor(elements.edges[i].weight, EndNormalized(i))
         /\ RLeq(Num(50), PlannedLength(i))
    /\ \A i, j \in CyEdges(elements) :
         (/\ elements.edges[i].weight <= elements.edges[j].weight
          /\ RLeq(EndNormalized(i), EndNormalized(j)))
           => RLeq(PlannedLength(j), PlannedLength(i))

\* C18, amended: the ideal length of every edge is max(50, 200 -
\* (weight/20)*70 - (m/25)*50) with m the larger composite score of its
\* ends (a score of 0 counting as 1), not the normalized importance; it is
\* never below 50 and never grows with the weight or with m.
C18_EdgeLengthFromCompositeScore ==
  planned.enhanced.computed =>
    /\ \A i \in CyEdges(elements) :
         /\ PlannedLength(i) = LengthFor(elements.edges[i].weight, EndCompositeScore(i))
         /\ RLeq(Num(50), PlannedLength(i))
    /\ \A i, j \in CyEdges(elements) :
         (/\ elements.edges[i].weight <= elements.edges[j].weight
          /\ RLeq(EndCompositeScore(i), EndCompositeScore(j)))
           => RLeq(PlannedLength(j), PlannedLength(i))

\* a planned graph with an edge held at the floor of 50 and a longer one
C18_Witness ==
  /\ planned.enhanced.computed
  /\ \E i, j \in CyEdges(elements) :
       /\ PlannedLength(i) = Num(50)
       /\ RLess(Num(50), PlannedLength(j))

NormalizedOf(id) == Entry(planned.enhanced.importanceScores, id).normalized

PlannedRepulsion(id) == planned.enhanced.layout.nodeRepulsion[id]

\* C19: the repulsion of every node is 4,500,000 * (1.5 - 0.8 * normalized):
\* 1.5 times the base for the least important node (normalized 0), 0.7
\* times for the most important (normalized 1), and of two nodes the one
\* with the higher normalized importance never has the larger repulsion.
C19_RepulsionFromNormalized ==
  planned.enhanced.computed =>
    /\ \A id \in CyNodes(elements) :
         /\ PlannedRepulsion(id)
              = Times(4500000, RSub(Rat(3, 2), RMul(Rat(4, 5), NormalizedOf(id))))
         /\ NormalizedOf(id) = Num(0) => PlannedRepulsion(id) = Times(4500000, Rat(3, 2))
         /\ NormalizedOf(id) = Num(1) => PlannedRepulsion(id) = Times(4500000, Rat(7, 10))
    /\ \A x, y \in CyNodes(elements) :
         RLess(NormalizedOf(x), NormalizedOf(y))
           => RLeq(PlannedRepulsion(y).times, PlannedRepulsion(x).times)

----------------------------------------------------------------------------
(* The graph model                                                         *)

GraphNodeIds(graph) == {graph.nodes[i].id : i \in 1..Len(graph.nodes)}

DistinctIds(graph) ==
  \A i, j \in 1..Len(graph.nodes) : graph.nodes[i].id = graph.nodes[j].id => i = j

\* C21: after any sequence of addNode / addEdge calls the node ids of the
\* graph are pairwise distinct, and an addNode call with an id that is
\* already present leaves the node list and the edge list as they were.
C21_AddNodeIdempotent ==
  /\ []DistinctIds(graphData)
  /\ [][\A nodeId \in GraphIds :
          (nodeId \in GraphNodeIds(graphData) /\ CallAddNode(nodeId))
            => (graphData'.nodes = graphData.nodes /\ graphData'.edges = graphData.edges)]_vars

\* addNode has just been called with an id that addEdge had put in a graph
\* of three nodes
C21_Witness ==
  /\ lastTurn = "addNode:present"
  /\ Len(graphData.nodes) = 3
  /\ Len(graphData.edges) >= 1

\* C22: every addEdge(from, to, weight) call appends exactly one edge
\* record at the end of the edge list and leaves the earlier edges as they
\* were, also when the pair already has an edge, and after the call from
\* and to are nodes of the graph.
C22_AddEdgeAppendsOne ==
  [][\A fromNode \in GraphIds, toNode \in GraphIds, weight \in GraphWeights :
        CallAddEdge(fromNode, toNode, weight) =>
          /\ graphData'.edges =
                graphData.edges \o <<[from |-> fromNode, to |-> toNode, weight |-> weight]>>
          /\ {fromNode, toNode} \subseteq GraphNodeIds(graphData')]_vars

\* two parallel edges of one pair, the endpoints added by the first call
C22_Witness ==
  /\ lastTurn = "addEdge"
  /\ Len(graphData.edges) = 2
  /\ graphData.edges[1].from = graphData.edges[2].from
  /\ graphData.edges[1].to = graphData.edges[2].to
  /\ graphData.edges[1].from # graphData.edges[1].to
  /\ GraphNodeIds(graphData) = {graphData.edges[1].from, graphData.edges[1].to}

----------------------------------------------------------------------------
(* Selection and graph changes                                             *)

\* C23: after every parse and every successful load, whatever was selected
\* before, selectedNode is null, the connected-node list is empty, and no
\* node or edge of the displayed graph carries a highlight tag.
C23_GraphChangeResetsSelection ==
  [][lastTurn' \in {"parse", "load"} =>
       /\ selectedNode' = NULL
       /\ connectedNodes' = <<>>
       /\ \A n \in DOMAIN nodeClasses' : nodeClasses'[n] \cap Classes = {}
       /\ \A i \in DOMAIN edgeClasses' : edgeClasses'[i] \cap Classes = {}]_vars

\* a graph that was just parsed or loaded and shares a node with the graph
\* it replaced, whose relaxation is still in flight
C23_Witness ==
  /\ lastTurn \in {"parse", "load"}
  /\ Len(elements.edges) >= 1
  /\ Len(layouts) = 2
  /\ Idle /\ connectedNodes = <<>> /\ NoHighlight

SelectionTurns == {"select", "sameNode", "reselect", "deselect"}

\* C24: a node tap or a background tap leaves graphData and elements as
\* they were, computes no score, tier or penalty and starts no relaxation;
\* a relaxation is started, and the values planned for it computed, only
\* by a parse or a load that replaces the element set.
C24_SelectionLeavesLayoutAlone ==
  [][/\ lastTurn' \in SelectionTurns =>
          /\ graphData' = graphData
          /\ elements' = elements
          /\ layouts' = layouts
          /\ planned' = planned
          /\ refinerCalls' = refinerCalls
     /\ (Len(layouts') > Len(layouts) \/ planned' # planned) =>
          /\ lastTurn' \in {"parse", "load"}
          /\ layouts' = Superseded(layouts) \o <<layouts'[Len(layouts')]>>]_vars

\* a node is tapped while another is selected and the relaxation of the
\* displayed graph is still in flight
C24_Witness ==
  /\ lastTurn = "reselect"
  /\ Len(elements.nodes) = 3
  /\ \E i \in 1..Len(layouts) : layouts[i].cur
  /\ \E n \in CyNodes(elements) : "connected-2" \in nodeClasses[n]

----------------------------------------------------------------------------
(* Tier order and pair penalties                                           *)

\* C26: for any two scored nodes u and v, compositeScore(u) >
\* compositeScore(v) gives tier(u) <= tier(v), and of two nodes with equal
\* scores the one that comes first in the iteration order of the nodes is
\* ranked first, so its tier is not the larger one.
C26_TiersMonotoneTiesInOrder ==
  planned.enhanced.computed =>
    LET scores == planned.enhanced.importanceScores
        tiers == planned.enhanced.layout.nodeTiers
    IN \A i, j \in 1..Len(scores) :
         /\ RLess(scores[j].compositeScore, scores[i].compositeScore)
              => tiers[scores[i].id] <= tiers[scores[j].id]
         /\ (i < j /\ scores[i].compositeScore = scores[j].compositeScore)
              => tiers[scores[i].id] <= tiers[scores[j].id]

\* C27: the estimate of a pair is the same whichever of its two nodes is
\* taken as nodeA: the penalty computed for (A, B) is the one computed for
\* (B, A), also when parallel edges or a loop repeat an id in a
\* connection list.
C27_PenaltyIgnoresPairOrder ==
  planned.enhanced.computed =>
    \A x, y \in CyNodes(elements) :
       x # y => PairPenalty(elements, x, y) = PairPenalty(elements, y, x)

\* C29: in every reachable state of the application graphData has a
\* nodes list with pairwise distinct ids and an edges list whose edges
\* all run between ids of its nodes, so that getConnectedNodes on
\* graphData cannot throw.
C29_GraphDataWellFormed ==
  /\ WellFormed(graphData)
  /\ DistinctIds(graphData)
  /\ \A i \in 1..Len(graphData.edges) :
       {graphData.edges[i].from, graphData.edges[i].to} \subseteq GraphNodeIds(graphData)
  /\ ~getConnectedNodesThrows(graphData)

----------------------------------------------------------------------------
(* The refiner pass                                                        *)

PlannedTiers == planned.enhanced.layout.nodeTiers
PlannedPenalties == planned.enhanced.layout.crossingPenalties

CommandsFor(commands, n) == {k \in 1..Len(commands) : commands[k].node = n}

\* the other nodes with a known penalty that sat elsewhere than n when the
\* pass started
PushingNodes(n) ==
  {m \in CyNodes(elements) \ {n} :
     /\ n \in DOMAIN PlannedPenalties
     /\ m \in DOMAIN PlannedPenalties[n]
     /\ positions[m] # positions[n]}

\* the unit vector between the start positions of n and m, times penalty / 20
ExpectedPush(n, m) ==
  [dx |-> positions[n].x - positions[m].x,
   dy |-> positions[n].y - positions[m].y,
   force |-> Rat(PlannedPenalties[n][m], 20)]

\* the sequence adjust holds exactly one term per pushing node, whatever
\* the order
SumsStartPositions(n, adjust) ==
  /\ Len(adjust) = Cardinality(PushingNodes(n))
  /\ \A m \in PushingNodes(n) :
       Cardinality({k \in 1..Len(adjust) : adjust[k] = ExpectedPush(n, m)})
         = Cardinality({o \in PushingNodes(n) : ExpectedPush(n, o) = ExpectedPush(n, m)})

\* C25: in one pass of minimizeCrossingsByNodeAdjustment every tiered node
\* is animated exactly once, a tier-0 node to its place on the ring round
\* the centre and a node of tiers 1 to 3 to its own position at the start
\* of the pass plus 0.3 times the sum, over the other nodes, of the pushes
\* computed from the positions all nodes had at the start of the pass.
C25_OneMoveFromStartPositions ==
  [][lastTurn' = "refine" =>
       /\ Len(animations') = Cardinality(DOMAIN PlannedTiers)
       /\ \A n \in DOMAIN PlannedTiers :
            /\ Cardinality(CommandsFor(animations', n)) = 1
            /\ \A k \in CommandsFor(animations', n) :
                 IF PlannedTiers[n] = 0
                 THEN /\ animations'[k].duration = 500
                      /\ animations'[k].position.radius = RingRadius
                      /\ animations'[k].position.center
                           = [y |-> ViewHeight \div 2, x |-> ViewWidth \div 2]
                 ELSE /\ animations'[k].duration = 300
                      /\ animations'[k].position.from = positions[n]
                      /\ animations'[k].position.correctionFactor = Rat(3, 10)
                      /\ SumsStartPositions(n, animations'[k].position.adjust)]_vars

\* a pass over nodes in the four tiers in which a node is pushed by two
\* others, one of them with a penalty that is not 0 and already animated
\* when the node's turn comes
C25_Witness ==
  /\ lastTurn = "refine"
  /\ {PlannedTiers[n] : n \in DOMAIN PlannedTiers} = 0..3
  /\ \E k \in 1..Len(animations) :
       /\ animations[k].duration = 300
       /\ Len(animations[k].position.adjust) >= 2
       /\ \E j \in 1..Len(animations[k].position.adjust) :
            animations[k].position.adjust[j].force[1] # 0
       /\ \E o \in 1..(k - 1) :
            /\ animations[o].duration = 300
            /\ PlannedPenalties[animations[k].node][animations[o].node] # 0
            /\ positions[animations[o].node] # positions[animations[k].node]

----------------------------------------------------------------------------
(* Stop callbacks of superseded relaxations                                *)

\* what the stop function would ask for with the weights of the graph on
\* display
FreshAnimations ==
  FallbackStop(Engine(elements, Viewport, <<>>),
               FallbackValues(elements).layout.normalizedWeights,
               elements.nodes).animations

\* C28: when a relaxation superseded by a parse or a load settles, its
\* stop function animates only nodes of the graph on display, and none of
\* them by a move that the weights of the graph on display do not give.
C28_StaleStopUsesNoOldData ==
  [][(lastTurn' = "settle" /\ settled' = settled) =>
       \A k \in 1..Len(animations') :
          /\ animations'[k].node \in CyNodes(elements)
          /\ animations'[k] \in Range(FreshAnimations)]_vars

====
